---- MODULE Spec2Model ----
(***************************************************************************)
(* Model of spinny-bot (src/bot.js): the elimination tournament of the     *)
(* !spin and !test commands, the winner-ordering transform                 *)
(* (orderedForWinner / shuffleArray), and the spin animation               *)
(* (createSpinningAnimation: rotation angle, easing curve, frame delays).  *)
(*                                                                         *)
(* Angles are exact integers.  For a wheel of S segments the unit is       *)
(* 2*pi/(4*S): a whole turn is 4*S units, one segment is 4 units, half a   *)
(* segment is 2 units and pi/2 is S units.  An eased angle at frame f of   *)
(* F is the fraction EaseNum(f,F)*finalRotation / EaseDen(F).              *)
(*                                                                         *)
(* JavaScript arrays are objects with identity: `heap` maps each array     *)
(* reference to its current contents, so that a callee writing through an  *)
(* alias of its argument is visible to the caller.                         *)
(*                                                                         *)
(* Math.random() is a nondeterministic choice; channel.send and the other  *)
(* Discord calls are taken to succeed (their failures are outside the      *)
(* handler's logic), except where the code catches the failure: the role   *)
(* requests of updateUserRoles and the message edits of                    *)
(* waitForCancelButton.  The guild's member cache is taken to show a role  *)
(* change as soon as the request has succeeded.                            *)
(*                                                                         *)
(* Specifications: Spec (tournament step), SpecCmd (a whole command, from  *)
(* the checks and Step 1 on), SpecOrder, SpecShuffle, SpecDraw (the pure   *)
(* helpers on their own), SpecAnim, SpecCurve, SpecSched (the animation),  *)
(* SpecWait (waitForCancelButton), SpecRoles (updateUserRoles), SpecCache   *)
(* (fetchMembersIfNeeded), SpecLive (the tournament step under fairness).  *)
(* After the final-winner message !spin removes 'Pig of the week' from its *)
(* holders (WeekRemoval) and updates the final winner's roles (FinalRoles).*)
(***************************************************************************)
EXTENDS Integers, Sequences, FiniteSets, TLC

VARIABLES
    cmd,            \* which command runs: "spin", "test", or "none"
    pc,             \* position of the messageCreate handler
    onWheelUsers,   \* the pool the tournament step starts from
    displayName,    \* member -> display label (!spin: member.displayName)
    heap,           \* array reference -> contents
    roundNum,       \* let roundNum
    winnerIndex,    \* const winnerIndex of the current round (0-based)
    winner,         \* const winner of the current round
    argNames,       \* contents of the array given to orderedForWinner, at the call
    spinMsg,        \* what createCssSpinAnimation returned this round
    sent,           \* messages posted by channel.send, in order
    spliced,        \* elements deleted from the pool by splice, in order
    numSegments,    \* animation: names.length
    slot,           \* animation: winnerIndex argument
    totalF,         \* animation: totalFrames
    finalRotation,  \* animation: finalRotationRad, in units
    frame,          \* animation: loop counter
    frames,         \* animation: frames handed to the encoder, in order
    guildRoles,     \* guild: the roles that exist (guild.roles.cache)
    roles,          \* guild: the roles every member holds (member.roles)
    offWheelUsers,  \* handler: members (or test names) 'Off the wheel', line 559
    drawn,          \* log: every call of spinWheel by a handler, in order
    schedules,      \* log: the frame schedule of every finished animation
    resolved,       \* waitForCancelButton: the flag set by the collect handler
    promise,        \* waitForCancelButton: state of the promise it returns
    collector,      \* waitForCancelButton: the component collector
    inFlight,       \* waitForCancelButton: handlers suspended at an await
    presses,        \* log: the button presses delivered to the collector
    components,     \* the spin message's button row
    requests,       \* log: the role requests sent to Discord, in order
    success,        \* updateUserRoles: the value of its last call
    memberCache,    \* fetchMembersIfNeeded: the guild's entry of memberCache
    now,            \* Date.now()
    fetches         \* log: the calls of guild.members.fetch()

tournamentVars == <<cmd, pc, onWheelUsers, displayName, heap, roundNum,
                    winnerIndex, winner, argNames, spinMsg, sent, spliced>>
animVars == <<numSegments, slot, totalF, finalRotation, frame, frames>>
cmdVars == <<guildRoles, roles, offWheelUsers, drawn, requests, success>>
schedVars == <<schedules>>
waitVars == <<resolved, promise, collector, inFlight, presses, components>>
cacheVars == <<memberCache, now, fetches>>
vars == <<cmd, pc, onWheelUsers, displayName, heap, roundNum, winnerIndex,
          winner, argNames, spinMsg, sent, spliced,
          numSegments, slot, totalF, finalRotation, frame, frames,
          guildRoles, roles, offWheelUsers, drawn, schedules,
          resolved, promise, collector, inFlight, presses, components,
          requests, success, memberCache, now, fetches>>

-----------------------------------------------------------------------------
(* Bounds of the model *)

\* largest pool a tournament starts from
MaxPool == 4
\* longest label array given to orderedForWinner on its own
MaxLen == 4
\* largest wheel given to createSpinningAnimation on its own
MaxSegments == 8
\* largest frame count / final rotation of the general timing curve
MaxFrames == 7
MaxRotation == 5
\* largest wheel of the repeated animations
MaxSched == 3
\* most members 'Off the wheel' / 'On the wheel' when a whole command runs
MaxOff == 6
MaxOn == 2
\* most button presses delivered during one wait
MaxPresses == 3
\* most clock advances and most fetchMembersIfNeeded calls in one run of the cache
MaxTicks == 3
MaxCalls == 3

-----------------------------------------------------------------------------
(* Program constants *)

POINTER_ANGLE == 0
FIXED_ROTATIONS == 4
totalFrames == 60
slowDownFrames == 20
HighlightFrames == 5
BaseDelay == 30
TailDelay == 50
TailStep == 15

\* spinWheel's null
NoIndex == -1
\* offWheelUsers.length >= 6
ReinstateThreshold == 6
\* fetchMembersIfNeeded's default ttl, in milliseconds
ttl == 60000
NoOne == "nobody"

\* the guild's members holding 'On the wheel', in cache order
GuildMembers == <<"u1", "u2", "u3", "u4", "u5", "u6", "u7", "u8", "u9", "u10",
                  "u11", "u12", "u13">>
\* display labels; two members may show the same label
Labels == {"Ann", "Bo", "Cy"}
\* the fixed list of !test, cut to the model's pool bound
testNamesOnWheel ==
    SubSeq(<<"Iris", "Jack", "Kate", "Liam", "Mia", "Noah", "Olivia", "Paul",
             "Quinn", "Ryan">>, 1, MaxPool)

\* the fixed off-wheel list of !test, cut to the model's bound
testNamesOffWheel ==
    SubSeq(<<"Alice", "Bob", "Charlie", "Diana", "Eve", "Frank", "Grace", "Henry">>,
           1, MaxOff)

-----------------------------------------------------------------------------
(* Arrays *)

Refs == {"remaining", "names", "others", "a", "ordered", "rolesToAdd", "rolesToRemove"}

Range(s) == {s[k] : k \in 1..Len(s)}

\* Array.prototype.slice(): a copy of src stored as a new array dst
Slice(h, src, dst) == [h EXCEPT ![dst] = h[src]]

\* splice(start): the deleteCount forgotten, everything from start is deleted
SpliceToEnd(s, start) ==
    IF start >= Len(s) THEN s ELSE SubSeq(s, 1, start)

\* splice(start + 1, 1): the element after the drawn one is deleted
SpliceNext(s, start) ==
    IF start + 1 >= Len(s) THEN s
    ELSE [k \in 1..(Len(s) - 1) |-> IF k <= start + 1 THEN s[k] ELSE s[k + 1]]

\* removal by overwriting the element with the last one and popping
SpliceSwapPop(s, start) ==
    IF start >= Len(s) THEN s
    ELSE [k \in 1..(Len(s) - 1) |-> IF k = start + 1 THEN s[Len(s)] ELSE s[k]]

\* the contents of an array after splice(start, 1)
SpliceOne(s, start) ==
    LET from == IF start < 0 THEN (IF Len(s) + start < 0 THEN 0 ELSE Len(s) + start)
                ELSE start
    IN  IF from >= Len(s) THEN s
        ELSE [k \in 1..(Len(s) - 1) |-> IF k <= from THEN s[k] ELSE s[k + 1]]

\* arr.splice(start, 1) on the array behind reference r
Splice(h, r, start) == [h EXCEPT ![r] = SpliceOne(h[r], start)]

\* a[i] = a[j] without the exchange
SwapOverwrite(s, i, j) ==
    [k \in 1..Len(s) |-> IF k = i + 1 THEN s[j + 1] ELSE s[k]]

\* [a[i], a[j]] = [a[j], a[i]] with 0-based i, j
Swap(s, i, j) ==
    [k \in 1..Len(s) |-> IF k = i + 1 THEN s[j + 1]
                         ELSE IF k = j + 1 THEN s[i + 1] ELSE s[k]]

\* the outcomes of Math.floor(Math.random() * n)
RandomBelow(n) == 0..(n - 1)

\* the draws of a shuffle that takes j from the whole array at every step
\* (Math.floor(Math.random() * a.length))
ShuffleDrawsNaive(n) == [1..(n - 1) -> 0..(n - 1)]

\* one outcome of every Math.random() call of shuffleArray on n elements:
\* js[i] is the j drawn at loop index i
ShuffleDraws(n) ==
    {js \in [1..(n - 1) -> 0..(n - 1)] : \A i \in 1..(n - 1) : js[i] \in RandomBelow(i + 1)}

RECURSIVE ShuffleLoop(_, _, _)
ShuffleLoop(s, i, js) ==
    IF i > 0 THEN ShuffleLoop(Swap(s, i, js[i]), i - 1, js) ELSE s

\* shuffleArray(arr): the result is the new array "a"
shuffleArray(h, arr, js) ==
    LET h1 == Slice(h, arr, "a")
    IN  [h1 EXCEPT !["a"] = ShuffleLoop(h1["a"], Len(h1["a"]) - 1, js)]

\* orderedForWinner working on its argument instead of a copy of it
orderedForWinnerAlias(h, names, wIdx, js) ==
    IF Len(h[names]) = 0 THEN [h EXCEPT !["ordered"] = <<>>]
    ELSE LET w  == h[names][wIdx + 1]
             h2 == Splice(h, names, wIdx)
             h3 == shuffleArray(h2, names, js)
         IN  [h3 EXCEPT !["others"] = h3[names], !["ordered"] = <<w>> \o h3["a"]]

\* orderedForWinner returning [...shuffled, winner]
orderedForWinnerLast(h, names, wIdx, js) ==
    IF Len(h[names]) = 0 THEN [h EXCEPT !["ordered"] = <<>>]
    ELSE LET w  == h[names][wIdx + 1]
             h1 == Slice(h, names, "others")
             h2 == Splice(h1, "others", wIdx)
             h3 == shuffleArray(h2, "others", js)
         IN  [h3 EXCEPT !["ordered"] = h3["a"] \o <<w>>]

\* orderedForWinner(names, winnerIndex): the result is the new array "ordered"
orderedForWinner(h, names, wIdx, js) ==
    IF Len(h[names]) = 0 THEN [h EXCEPT !["ordered"] = <<>>]
    ELSE LET w  == h[names][wIdx + 1]
             h1 == Slice(h, names, "others")
             h2 == Splice(h1, "others", wIdx)
             h3 == shuffleArray(h2, "others", js)
         IN  [h3 EXCEPT !["ordered"] = <<w>> \o h3["a"]]

\* spinWheel rounding to the nearest index (Math.round), which can give
\* users.length
spinWheelRound(users) ==
    IF Len(users) = 0 THEN {NoIndex} ELSE 0..Len(users)

\* spinWheel without the test for an empty array: Math.floor(random * 0) = 0
spinWheelNoGuard(users) ==
    IF Len(users) = 0 THEN {0} ELSE RandomBelow(Len(users))

\* spinWheel(users)
spinWheel(users) ==
    IF Len(users) = 0 THEN {NoIndex} ELSE RandomBelow(Len(users))

-----------------------------------------------------------------------------
(* The wheel and its rotation *)

\* createWheelImage: angle of the middle of segment i at rotation 0
SegmentMidAngle(S, i) ==
    LET startAngle == i * 4 - S
        endAngle   == (i + 1) * 4 - S
    IN  (startAngle + endAngle) \div 2

\* finalRotationRad aiming at the start of the segment, not its middle
FinalRotationRadSegmentStart(S, wIdx) ==
    LET anglePerSegment == 4
        winnerMidAngle  == wIdx * anglePerSegment - S
    IN  FIXED_ROTATIONS * (4 * S) + (POINTER_ANGLE - winnerMidAngle)

\* finalRotationRad with the sign of the landing offset turned round
FinalRotationRadWrongSign(S, wIdx) ==
    LET anglePerSegment == 4
        winnerMidAngle  == (2 * wIdx + 1) * (anglePerSegment \div 2) - S
    IN  FIXED_ROTATIONS * (4 * S) + (winnerMidAngle - POINTER_ANGLE)

\* finalRotationRad with a number of whole turns that changes from round to
\* round instead of FIXED_ROTATIONS
FinalRotationRadVaryingTurns(S, wIdx) ==
    LET anglePerSegment == 4
        winnerMidAngle  == (2 * wIdx + 1) * (anglePerSegment \div 2) - S
    IN  (FIXED_ROTATIONS + roundNum) * (4 * S) + (POINTER_ANGLE - winnerMidAngle)

\* createSpinningAnimation: finalRotationRad
FinalRotationRad(S, wIdx) ==
    LET anglePerSegment == 4
        winnerMidAngle  == (2 * wIdx + 1) * (anglePerSegment \div 2) - S
    IN  FIXED_ROTATIONS * (4 * S) + (POINTER_ANGLE - winnerMidAngle)

\* createWheelImage(names, winnerIndex, ...): the segments drawn in the
\* brightened colour
HighlightedSegments(S, wIdx) ==
    {i \in 0..(S - 1) : wIdx # NoIndex /\ i = wIdx}

\* createWheelImage: the segment drawn under the fixed pointer when the wheel
\* of S segments is rotated by `rotation`
SegmentUnderPointer(S, rotation) ==
    ((POINTER_ANGLE - rotation + S) % (4 * S)) \div 4

\* createSpinningAnimation(names, winnerIndex, channel): the message sent,
\* or null for an empty wheel
createSpinningAnimation(names, wIdx) ==
    IF Len(names) = 0
    THEN [sent |-> FALSE, names |-> names, winnerIndex |-> wIdx, lastAngle |-> 0]
    ELSE [sent |-> TRUE, names |-> names, winnerIndex |-> wIdx,
          lastAngle |-> FinalRotationRad(Len(names), wIdx)]

\* createCssSpinAnimation(names, winnerIndex, channel)
createCssSpinAnimation(names, wIdx) == createSpinningAnimation(names, 0)

NoSpinMsg == [sent |-> FALSE, names |-> <<>>, winnerIndex |-> 0, lastAngle |-> 0]

-----------------------------------------------------------------------------
(* The timing curve of createSpinningAnimation's frame loop *)

Cube(x) == x * x * x

\* progress = frame / totalFrames
ProgressDenAllFrames(f, F) == F

\* progress = frame / (totalFrames - 1), as numerator and denominator
ProgressNum(f, F) == f
ProgressDen(f, F) == F - 1

\* easeOutCubic(progress) = 1 - (1 - progress)^3 over the denominator
\* ProgressDen^3
EaseNum(f, F) ==
    Cube(ProgressDen(f, F)) - Cube(ProgressDen(f, F) - ProgressNum(f, F))
EaseDen(f, F) == Cube(ProgressDen(f, F))

\* the highlighted branch keeping the short delay
DelayHighlightedFlat(f, F) == BaseDelay

\* encoder.setDelay(...) of the highlighted branch
DelayHighlighted(f, F) ==
    IF f < F - slowDownFrames THEN BaseDelay
    ELSE TailDelay + (f - (F - slowDownFrames)) * TailStep

\* encoder.setDelay(...) of the plain branch
DelayPlain(f, F) ==
    IF f < F - slowDownFrames THEN BaseDelay
    ELSE TailDelay + (f - (F - slowDownFrames)) * TailStep

\* the frame loop highlighting from one frame too late (frame > totalFrames - 5)
FrameEntryLate(f, F, rotation, wIdx) ==
    LET common == [frame |-> f,
                   progressNum |-> ProgressNum(f, F),
                   progressDen |-> ProgressDen(f, F),
                   angleNum |-> EaseNum(f, F) * rotation,
                   angleDen |-> EaseDen(f, F)]
    IN  IF f > F - HighlightFrames
        THEN common @@ [highlight |-> wIdx, delay |-> DelayHighlighted(f, F)]
        ELSE common @@ [highlight |-> NoIndex, delay |-> DelayPlain(f, F)]

\* one pass of the frame loop: what the encoder receives for frame f.
\* angle = angleNum / angleDen units; highlight is the winnerIndex given to
\* createWheelImage (NoIndex for null)
FrameEntry(f, F, rotation, wIdx) ==
    LET common == [frame |-> f,
                   progressNum |-> ProgressNum(f, F),
                   progressDen |-> ProgressDen(f, F),
                   angleNum |-> EaseNum(f, F) * rotation,
                   angleDen |-> EaseDen(f, F)]
    IN  IF f >= F - HighlightFrames
        THEN common @@ [highlight |-> wIdx, delay |-> DelayHighlighted(f, F)]
        ELSE common @@ [highlight |-> NoIndex, delay |-> DelayPlain(f, F)]

-----------------------------------------------------------------------------
(* The tournament step of the messageCreate handler *)

Label(p) == IF cmd = "spin" THEN displayName[p] ELSE p

\* the array handed to orderedForWinner: !spin maps the pool to a fresh array
\* of labels, !test hands over the pool itself
NamesRef == IF cmd = "spin" THEN "names" ELSE "remaining"

EmptyHeap == [r \in Refs |-> <<>>]

AnimIdle ==
    /\ numSegments = 0
    /\ slot = 0
    /\ totalF = 0
    /\ finalRotation = 0
    /\ frame = 0
    /\ frames = <<>>

\* the three roles the bot manages (ON_THE_WHEEL, OFF_THE_WHEEL, YOUR_WEEK)
RoleNames == {"on", "off", "week"}

NoRoles == [m \in Range(GuildMembers) |-> {}]

\* the members holding role r, in the guild's member order
UsersWithRole(rl, r) ==
    SelectSeq(GuildMembers, LAMBDA m : r \in rl[m])

\* no command has touched the guild
CmdIdle ==
    /\ guildRoles = {}
    /\ roles = NoRoles
    /\ offWheelUsers = <<>>
    /\ drawn = <<>>
    /\ requests = <<>>
    /\ success = FALSE

\* memberCache has no entry for the guild
NoEntry == [cached |-> FALSE, ts |-> 0]

\* fetchMembersIfNeeded has not been called
CacheIdle ==
    /\ memberCache = NoEntry
    /\ now = 0
    /\ fetches = <<>>

SchedIdle == schedules = {}

NoInFlight == [updates |-> 0, edit |-> FALSE]

\* the promise of waitForCancelButton: whether it exists, and the values
\* resolve() has been called with, in order; it is settled with the first
NoPromise == [created |-> FALSE, calls |-> <<>>]

\* waitForCancelButton has not been called
WaitIdle ==
    /\ resolved = FALSE
    /\ promise = NoPromise
    /\ collector = "none"
    /\ inFlight = NoInFlight
    /\ presses = <<>>
    /\ components = "none"

Init ==
    /\ cmd \in {"spin", "test"}
    /\ pc = "step2"
    /\ IF cmd = "spin"
       THEN \E n \in 0..MaxPool :
               /\ onWheelUsers = SubSeq(GuildMembers, 1, n)
               /\ displayName \in [Range(onWheelUsers) -> Labels]
       ELSE /\ onWheelUsers = testNamesOnWheel
            /\ displayName = [p \in Range(onWheelUsers) |-> p]
    /\ heap = EmptyHeap
    /\ roundNum = 0
    /\ winnerIndex = NoIndex
    /\ winner = NoOne
    /\ argNames = <<>>
    /\ spinMsg = NoSpinMsg
    /\ sent = <<>>
    /\ spliced = <<>>
    /\ AnimIdle
    /\ guildRoles = (IF cmd = "spin" THEN RoleNames ELSE {})
    /\ roles = [m \in Range(GuildMembers) |->
                  IF cmd = "spin" /\ m \in Range(onWheelUsers) THEN {"on"} ELSE {}]
    /\ offWheelUsers = <<>>
    /\ drawn = <<>>
    /\ requests = <<>>
    /\ success = FALSE
    /\ SchedIdle
    /\ CacheIdle
    /\ WaitIdle

\* a logged call spinWheel(users): the pool drawn from, users.length and the
\* value returned
Draw(pool, size, index) == [pool |-> pool, size |-> size, index |-> index]

Msg(type, who, label) == [type |-> type, who |-> who, label |-> label]

\* Step 2 without the size check
StartTournamentNoCheck ==
    /\ pc = "step2"
    /\ sent' = Append(sent, Msg("start", NoOne, NoOne))
    /\ heap' = [heap EXCEPT !["remaining"] = onWheelUsers]
    /\ roundNum' = 1
    /\ pc' = "loop"
    /\ UNCHANGED <<cmd, onWheelUsers, displayName, winnerIndex, winner, argNames,
                   spinMsg, spliced>>
    /\ UNCHANGED animVars
    /\ UNCHANGED <<cmdVars, schedVars, cacheVars, waitVars>>

\* Step 2 up to the loop: the size check and the copy of the pool
StartTournament ==
    /\ pc = "step2"
    /\ IF Len(onWheelUsers) < 2
       THEN /\ sent' = Append(sent, Msg("tooFew", NoOne, NoOne))
            /\ pc' = "done"
            /\ UNCHANGED <<heap, roundNum>>
       ELSE /\ sent' = Append(sent, Msg("start", NoOne, NoOne))
            /\ heap' = [heap EXCEPT !["remaining"] = onWheelUsers]
            /\ roundNum' = 1
            /\ pc' = "loop"
    /\ UNCHANGED <<cmd, onWheelUsers, displayName, winnerIndex, winner, argNames,
                   spinMsg, spliced>>
    /\ UNCHANGED animVars
    /\ UNCHANGED <<cmdVars, schedVars, cacheVars, waitVars>>

\* One pass of the loop up to the wait for the Cancel button: the draw, the
\* presentation order and the animation
RoundDraw ==
    /\ pc = "loop"
    /\ Len(heap["remaining"]) > 1
    /\ LET h0 == IF cmd = "spin"
                 THEN [heap EXCEPT !["names"] =
                          [k \in 1..Len(heap["remaining"]) |-> displayName[heap["remaining"][k]]]]
                 ELSE heap
       IN  \E wIdx \in spinWheel(h0["remaining"]) :
            /\ drawn' = Append(drawn, Draw("on", Len(h0["remaining"]), wIdx))
            /\ IF wIdx = NoIndex
              THEN /\ heap' = h0
                   /\ pc' = "exit"
                   /\ UNCHANGED <<winnerIndex, winner, argNames, spinMsg, sent>>
              ELSE \E js \in ShuffleDraws(Len(h0[NamesRef]) - 1) :
                      LET h1 == orderedForWinner(h0, NamesRef, wIdx, js)
                      IN  /\ heap' = h1
                          /\ winnerIndex' = wIdx
                          /\ winner' = h0["remaining"][wIdx + 1]
                          /\ argNames' = h0[NamesRef]
                          /\ spinMsg' = createCssSpinAnimation(h1["ordered"], 0)
                          /\ sent' = sent \o <<Msg("round", NoOne, NoOne),
                                               Msg("status", NoOne, NoOne)>>
                          /\ pc' = "wait"
    /\ UNCHANGED <<cmd, onWheelUsers, displayName, roundNum, spliced>>
    /\ UNCHANGED animVars
    /\ UNCHANGED <<guildRoles, roles, offWheelUsers, requests, success>>
    /\ UNCHANGED <<schedVars, cacheVars, waitVars>>

\* what a splice deleted: the elements of `old` that `new` no longer holds
Deleted(old, new) == SelectSeq(old, LAMBDA x : x \notin Range(new))

\* remainingUsers.splice(winnerIndex): the deleteCount forgotten
RemoveWinnerToEnd(h, wIdx) ==
    [h EXCEPT !["remaining"] = SpliceToEnd(h["remaining"], wIdx)]

\* remainingUsers.splice(winnerIndex + 1, 1)
RemoveWinnerNext(h, wIdx) ==
    [h EXCEPT !["remaining"] = SpliceNext(h["remaining"], wIdx)]

\* the drawn element overwritten by the last one, then pop()
RemoveWinnerSwapPop(h, wIdx) ==
    [h EXCEPT !["remaining"] = SpliceSwapPop(h["remaining"], wIdx)]

\* the splice forgotten: the pool keeps the drawn participant
RemoveWinnerNothing(h, wIdx) == h

\* remainingUsers.splice(winnerIndex, 1) / remainingNames.splice(winnerIndex, 1)
RemoveWinner(h, wIdx) == Splice(h, "remaining", wIdx)

\* the cancelled branch without its return: the round goes on
RoundCancelledNoReturn ==
    /\ pc = "wait"
    /\ spinMsg.sent
    /\ sent' = sent \o <<[type |-> "cancelled", who |-> NoOne, label |-> NoOne],
                         [type |-> "removed", who |-> winner,
                          label |-> IF cmd = "spin" THEN displayName[winner] ELSE winner]>>
    /\ heap' = RemoveWinner(heap, winnerIndex)
    /\ spliced' = spliced \o Deleted(heap["remaining"], heap'["remaining"])
    /\ roundNum' = roundNum + 1
    /\ pc' = "loop"
    /\ UNCHANGED <<cmd, onWheelUsers, displayName, winnerIndex, winner, argNames, spinMsg>>
    /\ UNCHANGED animVars
    /\ UNCHANGED <<cmdVars, schedVars, cacheVars, waitVars>>

\* waitForCancelButton resolved true: the handler returns
RoundCancelled ==
    /\ pc = "wait"
    /\ spinMsg.sent
    /\ sent' = Append(sent, Msg("cancelled", NoOne, NoOne))
    /\ pc' = "cancelled"
    /\ UNCHANGED <<cmd, onWheelUsers, displayName, heap, roundNum, winnerIndex,
                   winner, argNames, spinMsg, spliced>>
    /\ UNCHANGED animVars
    /\ UNCHANGED <<cmdVars, schedVars, cacheVars, waitVars>>

\* a round that also moves the removed participant off the wheel
RoundCommitOffWheel ==
    /\ pc = "wait"
    /\ sent' = Append(sent, Msg("removed", winner, Label(winner)))
    /\ heap' = RemoveWinner(heap, winnerIndex)
    /\ spliced' = spliced \o Deleted(heap["remaining"], heap'["remaining"])
    /\ roundNum' = roundNum + 1
    /\ pc' = "loop"
    /\ roles' = IF cmd = "spin"
                THEN [roles EXCEPT ![winner] = (@ \cup {"off"}) \ {"on"}]
                ELSE roles
    /\ UNCHANGED <<cmd, onWheelUsers, displayName, winnerIndex, winner, argNames, spinMsg>>
    /\ UNCHANGED animVars
    /\ UNCHANGED <<guildRoles, offWheelUsers, drawn, requests, success>>
    /\ UNCHANGED <<schedVars, cacheVars, waitVars>>

\* waitForCancelButton resolved false (or there was no spin message): the
\* round's participant is announced and deleted from the pool
RoundCommit ==
    /\ pc = "wait"
    /\ sent' = Append(sent, Msg("removed", winner, Label(winner)))
    /\ heap' = RemoveWinner(heap, winnerIndex)
    /\ spliced' = spliced \o Deleted(heap["remaining"], heap'["remaining"])
    /\ roundNum' = roundNum + 1
    /\ pc' = "loop"
    /\ UNCHANGED <<cmd, onWheelUsers, displayName, winnerIndex, winner, argNames, spinMsg>>
    /\ UNCHANGED animVars
    /\ UNCHANGED <<cmdVars, schedVars, cacheVars, waitVars>>

\* updateUserRoles(member, addRoles, removeRoles): the roles afterwards, when
\* both requests succeed ("ok"), when roles.add throws ("addThrows", nothing
\* is changed) or when roles.remove throws ("removeThrows", only the
\* addition is made)
UpdateOutcomes(add, remove) ==
    {"ok"} \cup (IF add # {} THEN {"addThrows"} ELSE {})
           \cup (IF remove # {} THEN {"removeThrows"} ELSE {})

updateUserRoles(rl, member, add, remove, outcome) ==
    CASE outcome = "ok"           -> [rl EXCEPT ![member] = (@ \cup add) \ remove]
      [] outcome = "addThrows"    -> rl
      [] outcome = "removeThrows" -> [rl EXCEPT ![member] = @ \cup add]

\* one call of member.roles.add / member.roles.remove and whether it succeeded
RoleRequest(member, op, rs, ok) == [member |-> member, op |-> op, roles |-> rs, ok |-> ok]

\* updateUserRoles(member, addRoles, removeRoles): the requests it sends, in
\* order; an empty list sends none, and a request that throws ends the try
\* block
RoleRequests(member, add, remove, outcome) ==
    (IF add # {}
     THEN <<RoleRequest(member, "add", add, outcome # "addThrows")>> ELSE <<>>)
    \o (IF remove # {} /\ outcome # "addThrows"
        THEN <<RoleRequest(member, "remove", remove, outcome # "removeThrows")>> ELSE <<>>)

\* updateUserRoles returning true from its catch block as well
UpdateReturnsAlways(outcome) == TRUE

\* updateUserRoles: return true at the end of the try block, return false
\* in the catch block
UpdateReturns(outcome) == outcome = "ok"

\* getUsersWithRoleCached(guild, roleName): [] when the guild has no such role
getUsersWithRoleCached(gr, rl, r) ==
    IF r \in gr THEN UsersWithRole(rl, r) ELSE <<>>

\* the holders of 'Pig of the week' other than the final winner, in cache order
OtherHolders(gr, rl, finalWinner) ==
    SelectSeq(getUsersWithRoleCached(gr, rl, "week"), LAMBDA h : h # finalWinner)

\* the loop over currentHolders: updateUserRoles(holder, [], [weekRole]) for
\* each, whatever the previous one returned
RECURSIVE WeekRemovalRoles(_, _, _)
WeekRemovalRoles(rl, holders, outs) ==
    IF holders = <<>> THEN rl
    ELSE WeekRemovalRoles(updateUserRoles(rl, Head(holders), {}, {"week"}, Head(outs)),
                          Tail(holders), Tail(outs))

RECURSIVE WeekRemovalRequests(_, _)
WeekRemovalRequests(holders, outs) ==
    IF holders = <<>> THEN <<>>
    ELSE RoleRequests(Head(holders), {}, {"week"}, Head(outs))
         \o WeekRemovalRequests(Tail(holders), Tail(outs))

\* rolesToAdd granting the week role only
FinalAdditionsWeekOnly(gr) == {"week"} \cap gr

\* rolesToAdd: weekRole and offRole, each if the guild has it
FinalAdditions(gr) == {"week", "off"} \cap gr

\* rolesToRemove: onRole, if the guild has it
FinalRemovals(gr) == {"on"} \cap gr

\* a command that updates roles whichever it is
UpdatesRolesAlways(c) == TRUE

\* !spin updates roles; !test has no role update in its handler
UpdatesRoles(c) == c = "spin"

\* The loop's condition is false (or the draw was null): the final winner
LoopExit ==
    /\ \/ pc = "loop" /\ Len(heap["remaining"]) <= 1
       \/ pc = "exit"
    /\ IF Len(heap["remaining"]) = 1
       THEN /\ sent' = Append(sent, Msg("final", heap["remaining"][1], Label(heap["remaining"][1])))
            /\ pc' = IF UpdatesRoles(cmd) THEN "final" ELSE "done"
       ELSE /\ sent' = Append(sent, Msg("noWinner", NoOne, NoOne))
            /\ pc' = "done"
    /\ UNCHANGED <<cmd, onWheelUsers, displayName, heap, roundNum, winnerIndex,
                   winner, argNames, spinMsg, spliced>>
    /\ UNCHANGED animVars
    /\ UNCHANGED <<cmdVars, schedVars, cacheVars, waitVars>>

\* !spin after the final-winner message: if the guild has the week role, it
\* is removed from every holder other than the final winner; a request that
\* fails is reported on the console and the loop goes on
WeekRemoval ==
    /\ pc = "final"
    /\ LET finalWinner == heap["remaining"][1]
           holders     == OtherHolders(guildRoles, roles, finalWinner)
       IN  \E outs \in [1..Len(holders) -> UpdateOutcomes({}, {"week"})] :
              /\ roles' = WeekRemovalRoles(roles, holders, outs)
              /\ requests' = requests \o WeekRemovalRequests(holders, outs)
    /\ pc' = "grant"
    /\ UNCHANGED <<cmd, onWheelUsers, displayName, heap, roundNum, winnerIndex,
                   winner, argNames, spinMsg, sent, spliced>>
    /\ UNCHANGED animVars
    /\ UNCHANGED <<guildRoles, offWheelUsers, drawn, success>>
    /\ UNCHANGED <<schedVars, cacheVars, waitVars>>

\* the final winner's role update and its report: the phrase of the week, the
\* permissions warning, or the warning that no role was found
FinalRoles ==
    /\ pc = "grant"
    /\ LET finalWinner   == heap["remaining"][1]
           rolesToAdd    == FinalAdditions(guildRoles)
           rolesToRemove == FinalRemovals(guildRoles)
       IN  IF rolesToAdd # {} \/ rolesToRemove # {}
           THEN \E outcome \in UpdateOutcomes(rolesToAdd, rolesToRemove) :
                   /\ roles' = updateUserRoles(roles, finalWinner, rolesToAdd,
                                               rolesToRemove, outcome)
                   /\ requests' = requests \o RoleRequests(finalWinner, rolesToAdd,
                                                           rolesToRemove, outcome)
                   /\ success' = UpdateReturns(outcome)
                   /\ sent' = Append(sent, Msg(IF success' THEN "phrase" ELSE "rolesFailed",
                                               finalWinner, Label(finalWinner)))
           ELSE /\ sent' = Append(sent, Msg("noRoles", NoOne, NoOne))
                /\ UNCHANGED <<roles, requests, success>>
    /\ pc' = "done"
    /\ UNCHANGED <<cmd, onWheelUsers, displayName, heap, roundNum, winnerIndex,
                   winner, argNames, spinMsg, spliced>>
    /\ UNCHANGED animVars
    /\ UNCHANGED <<guildRoles, offWheelUsers, drawn>>
    /\ UNCHANGED <<schedVars, cacheVars, waitVars>>

-----------------------------------------------------------------------------
(* orderedForWinner on its own: any label array, any index, any shuffle *)

TournamentIdle ==
    /\ cmd = "none"
    /\ onWheelUsers = <<>>
    /\ displayName = <<>>
    /\ roundNum = 0
    /\ winner = NoOne
    /\ spinMsg = NoSpinMsg
    /\ sent = <<>>
    /\ spliced = <<>>

RECURSIVE SeqsUpTo(_, _)
SeqsUpTo(S, n) ==
    IF n = 0 THEN {<<>>}
    ELSE LET shorter == SeqsUpTo(S, n - 1)
         IN  shorter \cup {Append(q, x) : q \in {r \in shorter : Len(r) = n - 1}, x \in S}

InitOrder ==
    /\ TournamentIdle
    /\ AnimIdle
    /\ CmdIdle
    /\ SchedIdle
    /\ CacheIdle
    /\ WaitIdle
    /\ pc = "orderCall"
    /\ \E input \in SeqsUpTo(Labels, MaxLen) :
          /\ heap = [EmptyHeap EXCEPT !["names"] = input]
          /\ argNames = input
    /\ winnerIndex = NoIndex

\* a call orderedForWinner(names, winnerIndex) with a valid index
OrderCall ==
    /\ pc = "orderCall"
    /\ \E wIdx \in (IF Len(heap["names"]) = 0 THEN {0} ELSE RandomBelow(Len(heap["names"]))) :
          \E js \in ShuffleDraws(Len(heap["names"]) - 1) :
             /\ heap' = orderedForWinner(heap, "names", wIdx, js)
             /\ winnerIndex' = wIdx
    /\ pc' = "orderReturned"
    /\ UNCHANGED <<cmd, onWheelUsers, displayName, roundNum, winner, argNames,
                   spinMsg, sent, spliced>>
    /\ UNCHANGED animVars
    /\ UNCHANGED <<cmdVars, schedVars, cacheVars, waitVars>>

NextOrder == OrderCall

SpecOrder == InitOrder /\ [][NextOrder]_vars

-----------------------------------------------------------------------------
(* createSpinningAnimation on its own *)

TournamentOff ==
    /\ TournamentIdle
    /\ CmdIdle
    /\ SchedIdle
    /\ CacheIdle
    /\ WaitIdle
    /\ heap = EmptyHeap
    /\ winnerIndex = NoIndex
    /\ argNames = <<>>

\* a call createSpinningAnimation(names, winnerIndex, channel) with any
\* number of names and any index from -1 to names.length
InitAnim ==
    /\ TournamentOff
    /\ pc = "animCall"
    /\ numSegments \in 0..MaxSegments
    /\ slot \in -1..numSegments
    /\ totalF = 0
    /\ finalRotation = 0
    /\ frame = 0
    /\ frames = <<>>

\* from the entry to the frame loop: the early return and the spin plan
AnimStart ==
    /\ pc = "animCall"
    /\ IF numSegments = 0
       THEN /\ pc' = "animNull"
            /\ UNCHANGED <<totalF, finalRotation>>
       ELSE /\ totalF' = totalFrames
            /\ finalRotation' = FinalRotationRad(numSegments, slot)
            /\ pc' = "animLoop"
    /\ UNCHANGED <<numSegments, slot, frame, frames>>
    /\ UNCHANGED <<cmd, onWheelUsers, displayName, heap, roundNum, winnerIndex,
                   winner, argNames, spinMsg, sent, spliced>>
    /\ UNCHANGED <<cmdVars, schedVars, cacheVars, waitVars>>

\* one pass of the frame loop
EmitFrame ==
    /\ pc = "animLoop"
    /\ frame < totalF
    /\ frames' = Append(frames, FrameEntry(frame, totalF, finalRotation, slot))
    /\ frame' = frame + 1
    /\ UNCHANGED <<pc, numSegments, slot, totalF, finalRotation>>
    /\ UNCHANGED <<cmd, onWheelUsers, displayName, heap, roundNum, winnerIndex,
                   winner, argNames, spinMsg, sent, spliced>>
    /\ UNCHANGED <<cmdVars, schedVars, cacheVars, waitVars>>

\* the loop is over: encoder.finish() and the message with the GIF
AnimFinish ==
    /\ pc = "animLoop"
    /\ ~(frame < totalF)
    /\ pc' = "animSent"
    /\ UNCHANGED <<numSegments, slot, totalF, finalRotation, frame, frames>>
    /\ UNCHANGED <<cmd, onWheelUsers, displayName, heap, roundNum, winnerIndex,
                   winner, argNames, spinMsg, sent, spliced>>
    /\ UNCHANGED <<cmdVars, schedVars, cacheVars, waitVars>>

NextAnim ==
    \/ AnimStart
    \/ EmitFrame
    \/ AnimFinish

SpecAnim == InitAnim /\ [][NextAnim]_vars

\* the frame loop for any frame count F >= 2 (the program's 60 included) and
\* any final rotation >= 0
InitCurve ==
    /\ TournamentOff
    /\ pc = "animLoop"
    /\ numSegments = 1
    /\ slot = 0
    /\ totalF \in (2..MaxFrames) \cup {totalFrames}
    /\ finalRotation \in 0..MaxRotation
    /\ frame = 0
    /\ frames = <<>>

NextCurve ==
    \/ EmitFrame
    \/ AnimFinish

SpecCurve == InitCurve /\ [][NextCurve]_vars

-----------------------------------------------------------------------------
(* The commands *)

(* spinWheel on its own, called on any array *)

InitDraw ==
    /\ TournamentIdle
    /\ AnimIdle
    /\ CmdIdle
    /\ SchedIdle
    /\ CacheIdle
    /\ WaitIdle
    /\ pc = "drawCall"
    /\ \E users \in SeqsUpTo(Labels, MaxLen) :
          /\ heap = [EmptyHeap EXCEPT !["names"] = users]
          /\ argNames = users
    /\ winnerIndex = NoIndex

\* a call spinWheel(users): it returns to the caller on every input
SpinCall ==
    /\ pc = "drawCall"
    /\ winnerIndex' \in spinWheel(heap["names"])
    /\ pc' = "drawReturned"
    /\ UNCHANGED <<cmd, onWheelUsers, displayName, heap, roundNum, winner, argNames,
                   spinMsg, sent, spliced>>
    /\ UNCHANGED animVars
    /\ UNCHANGED <<cmdVars, schedVars, cacheVars, waitVars>>

NextDraw == SpinCall

SpecDraw == InitDraw /\ [][NextDraw]_vars

(* shuffleArray on its own, called on any array of distinct elements *)

DistinctSeqs(S, n) ==
    {q \in SeqsUpTo(S, n) : \A i, j \in 1..Len(q) : q[i] = q[j] => i = j}

InitShuffle ==
    /\ TournamentIdle
    /\ AnimIdle
    /\ CmdIdle
    /\ SchedIdle
    /\ CacheIdle
    /\ WaitIdle
    /\ pc = "shuffleCall"
    /\ \E arr \in DistinctSeqs(Range(SubSeq(GuildMembers, 1, MaxLen)), MaxLen) :
          /\ heap = [EmptyHeap EXCEPT !["names"] = arr]
          /\ argNames = arr
    /\ winnerIndex = NoIndex

\* a call shuffleArray(arr) with one outcome of its Math.random() calls
ShuffleCall ==
    /\ pc = "shuffleCall"
    /\ \E js \in ShuffleDraws(Len(heap["names"])) :
          heap' = shuffleArray(heap, "names", js)
    /\ pc' = "shuffleReturned"
    /\ UNCHANGED <<cmd, onWheelUsers, displayName, roundNum, winnerIndex, winner,
                   argNames, spinMsg, sent, spliced>>
    /\ UNCHANGED animVars
    /\ UNCHANGED <<cmdVars, schedVars, cacheVars, waitVars>>

NextShuffle == ShuffleCall

SpecShuffle == InitShuffle /\ [][NextShuffle]_vars

(* createSpinningAnimation called twice, by different rounds *)

\* the label arrays of a wheel of n segments: the first n member labels in
\* two different orders
NameOrders(n) ==
    LET inOrder == SubSeq(GuildMembers, 1, n)
    IN  {inOrder, [k \in 1..n |-> inOrder[n + 1 - k]]}

\* the caller's state at a call createSpinningAnimation(names, slot): any
\* order of the labels, any slot, in any round
SchedCall ==
    \E n \in 1..MaxSched :
       /\ argNames' \in NameOrders(n)
       /\ numSegments' = n
       /\ slot' \in 0..(n - 1)
       /\ roundNum' \in 1..2

InitSched ==
    /\ cmd = "none"
    /\ onWheelUsers = <<>>
    /\ displayName = <<>>
    /\ heap = EmptyHeap
    /\ winnerIndex = NoIndex
    /\ winner = NoOne
    /\ spinMsg = NoSpinMsg
    /\ sent = <<>>
    /\ spliced = <<>>
    /\ CmdIdle
    /\ WaitIdle
    /\ schedules = {}
    /\ CacheIdle
    /\ pc = "animCall"
    /\ \E n \in 1..MaxSched :
          /\ argNames \in NameOrders(n)
          /\ numSegments = n
          /\ slot \in 0..(n - 1)
          /\ roundNum \in 1..2
    /\ totalF = 0
    /\ finalRotation = 0
    /\ frame = 0
    /\ frames = <<>>

\* the animation has been sent: its schedule is logged with the call's
\* arguments, and the next round calls createSpinningAnimation again
SchedLog ==
    /\ pc = "animSent"
    /\ schedules' = schedules \cup {[segments |-> numSegments, slot |-> slot,
                                      names |-> argNames, round |-> roundNum,
                                      frames |-> frames]}
    /\ IF schedules = {}
       THEN /\ SchedCall
            /\ pc' = "animCall"
            /\ totalF' = 0
            /\ finalRotation' = 0
            /\ frame' = 0
            /\ frames' = <<>>
       ELSE /\ pc' = "schedDone"
            /\ UNCHANGED <<argNames, roundNum>>
            /\ UNCHANGED animVars
    /\ UNCHANGED <<cmd, onWheelUsers, displayName, heap, winnerIndex, winner,
                   spinMsg, sent, spliced>>
    /\ UNCHANGED <<cmdVars, waitVars, cacheVars>>

NextSched ==
    \/ AnimStart
    \/ EmitFrame
    \/ AnimFinish
    \/ SchedLog

SpecSched == InitSched /\ [][NextSched]_vars

(* The whole command: the checks, Step 1 (reinstatement), then the tournament *)

\* Step 1 is entered with one member more than needed
NeedsReinstatementStrict(n) == n > ReinstateThreshold

\* if (offWheelUsers.length >= 6)
NeedsReinstatement(n) == n >= ReinstateThreshold

\* the place of a member in the guild's member list
MemberNo(p) == CHOOSE k \in 1..Len(GuildMembers) : GuildMembers[k] = p

\* a member who is on neither list
Bystander == GuildMembers[Len(GuildMembers)]

\* the roles of a guild whose first k members are 'Off the wheel' and whose
\* next m are 'On the wheel', with the members of `week` holding 'Pig of the
\* week' as well
GuildOf(k, m, week) ==
    [p \in Range(GuildMembers) |->
       (IF MemberNo(p) <= k THEN {"off"}
        ELSE IF MemberNo(p) <= k + m THEN {"on"}
        ELSE {})
       \cup (IF p \in week THEN {"week"} ELSE {})]

\* a guild with up to MaxOff members 'Off the wheel' and up to MaxOn members
\* 'On the wheel'; the guild may lack any of the three roles; 'Pig of the
\* week' is held by nobody, by the member after the off-wheel ones (the first
\* one on the wheel, if there is one), by a member on neither list, or by both.  !test runs in a guild that has all three roles.
InitCmd ==
    /\ cmd \in {"spin", "test"}
    /\ pc = "start"
    /\ IF cmd = "spin"
       THEN /\ guildRoles \in SUBSET RoleNames
            /\ \E k \in 0..MaxOff, m \in 0..MaxOn :
                  /\ ("off" \notin guildRoles) => k = 0
                  /\ ("on" \notin guildRoles) => m = 0
                  /\ \E week \in SUBSET {GuildMembers[k + 1], Bystander} :
                        /\ ("week" \notin guildRoles) => week = {}
                        /\ roles = GuildOf(k, m, week)
            /\ onWheelUsers = <<>>
            /\ displayName = [p \in Range(GuildMembers) |-> p]
       ELSE /\ guildRoles = RoleNames
            /\ roles = GuildOf(1, 1, {Bystander})
            /\ onWheelUsers = testNamesOnWheel
            /\ displayName = [p \in Range(onWheelUsers) |-> p]
    /\ offWheelUsers = <<>>
    /\ drawn = <<>>
    /\ requests = <<>>
    /\ success = FALSE
    /\ heap = EmptyHeap
    /\ roundNum = 0
    /\ winnerIndex = NoIndex
    /\ winner = NoOne
    /\ argNames = <<>>
    /\ spinMsg = NoSpinMsg
    /\ sent = <<>>
    /\ spliced = <<>>
    /\ AnimIdle
    /\ SchedIdle
    /\ CacheIdle
    /\ WaitIdle

\* !spin outside a guild, or without the 'Manage Roles' permission: a message
\* and return
CmdReject ==
    /\ pc = "start"
    /\ cmd = "spin"
    /\ \E why \in {"noGuild", "noPermission"} :
          sent' = Append(sent, Msg(why, NoOne, NoOne))
    /\ pc' = "done"
    /\ UNCHANGED <<cmd, onWheelUsers, displayName, heap, roundNum, winnerIndex,
                   winner, argNames, spinMsg, spliced>>
    /\ UNCHANGED animVars
    /\ UNCHANGED <<cmdVars, schedVars, cacheVars, waitVars>>

\* the command is accepted: the opening message
CmdAccept ==
    /\ pc = "start"
    /\ sent' = Append(sent, Msg("starting", NoOne, NoOne))
    /\ pc' = "step1"
    /\ UNCHANGED <<cmd, onWheelUsers, displayName, heap, roundNum, winnerIndex,
                   winner, argNames, spinMsg, spliced>>
    /\ UNCHANGED animVars
    /\ UNCHANGED <<cmdVars, schedVars, cacheVars, waitVars>>

\* the list Step 2 works on: fetched from the guild by !spin, fixed in !test
OnWheelFetch(rl) ==
    IF cmd = "spin" THEN getUsersWithRoleCached(guildRoles, rl, "on") ELSE onWheelUsers

\* Step 1 up to the wait for the Cancel button: the off-wheel list, the
\* threshold, the draw, the presentation order and the animation; below the
\* threshold the step is skipped and the on-wheel list is fetched
Step1Draw ==
    /\ pc = "step1"
    /\ LET off == IF cmd = "spin"
                  THEN getUsersWithRoleCached(guildRoles, roles, "off")
                  ELSE testNamesOffWheel
           h0  == [heap EXCEPT !["names"] = [k \in 1..Len(off) |-> Label(off[k])]]
       IN  /\ offWheelUsers' = off
           /\ IF NeedsReinstatement(Len(off))
              THEN \E wIdx \in spinWheel(off) :
                      /\ drawn' = Append(drawn, Draw("off", Len(off), wIdx))
                      /\ IF cmd = "spin" /\ wIdx = NoIndex
                         THEN /\ sent' = Append(sent, Msg("info", NoOne, NoOne))
                              /\ heap' = h0
                              /\ onWheelUsers' = OnWheelFetch(roles)
                              /\ pc' = "step2"
                              /\ UNCHANGED <<winnerIndex, winner, argNames, spinMsg>>
                         ELSE \E js \in ShuffleDraws(Len(off) - 1) :
                                 LET h1 == orderedForWinner(h0, "names", wIdx, js)
                                 IN  /\ heap' = h1
                                     /\ winnerIndex' = wIdx
                                     /\ winner' = off[wIdx + 1]
                                     /\ argNames' = h0["names"]
                                     /\ spinMsg' = createCssSpinAnimation(h1["ordered"], 0)
                                     /\ sent' = sent \o <<Msg("info", NoOne, NoOne),
                                                          Msg("status", NoOne, NoOne)>>
                                     /\ pc' = "wait1"
                                     /\ UNCHANGED onWheelUsers
              ELSE /\ sent' = Append(sent, Msg("skip", NoOne, NoOne))
                   /\ onWheelUsers' = OnWheelFetch(roles)
                   /\ pc' = "step2"
                   /\ UNCHANGED <<heap, winnerIndex, winner, argNames, spinMsg, drawn>>
    /\ UNCHANGED <<cmd, displayName, roundNum, spliced, guildRoles, roles,
                   requests, success>>
    /\ UNCHANGED animVars
    /\ UNCHANGED <<schedVars, cacheVars, waitVars>>

\* the cancelled branch of Step 1 without its return: the member is brought
\* back and Step 2 follows
Step1CancelledNoReturn ==
    /\ pc = "wait1"
    /\ spinMsg.sent
    /\ sent' = sent \o <<Msg("cancelled", NoOne, NoOne), Msg("back", winner, Label(winner))>>
    /\ roles' = IF UpdatesRoles(cmd) /\ {"on", "off"} \subseteq guildRoles
                THEN updateUserRoles(roles, winner, {"on"}, {"off"}, "ok")
                ELSE roles
    /\ requests' = IF UpdatesRoles(cmd) /\ {"on", "off"} \subseteq guildRoles
                   THEN requests \o RoleRequests(winner, {"on"}, {"off"}, "ok")
                   ELSE requests
    /\ onWheelUsers' = OnWheelFetch(roles')
    /\ heap' = EmptyHeap
    /\ spinMsg' = NoSpinMsg
    /\ pc' = "step2"
    /\ UNCHANGED <<cmd, displayName, roundNum, winnerIndex, winner, argNames,
                   spliced, guildRoles, offWheelUsers, drawn, success>>
    /\ UNCHANGED animVars
    /\ UNCHANGED <<schedVars, cacheVars, waitVars>>

\* the reinstatement spin was cancelled: the message and return
Step1Cancelled ==
    /\ pc = "wait1"
    /\ spinMsg.sent
    /\ sent' = Append(sent, Msg("cancelled", NoOne, NoOne))
    /\ pc' = "cancelled"
    /\ UNCHANGED <<cmd, onWheelUsers, displayName, heap, roundNum, winnerIndex,
                   winner, argNames, spinMsg, spliced>>
    /\ UNCHANGED animVars
    /\ UNCHANGED <<cmdVars, schedVars, cacheVars, waitVars>>

\* the reinstatement spin was not cancelled: the announcement, the role
\* update of !spin and its report, then the fetch of the on-wheel list. The
\* arrays of Step 1 are local to its block and are gone after it, and the
\* spin message has been deleted.
Step1Commit ==
    /\ pc = "wait1"
    /\ IF UpdatesRoles(cmd)
       THEN IF {"on", "off"} \subseteq guildRoles
            THEN \E outcome \in UpdateOutcomes({"on"}, {"off"}) :
                    /\ roles' = updateUserRoles(roles, winner, {"on"}, {"off"}, outcome)
                    /\ requests' = requests \o RoleRequests(winner, {"on"}, {"off"}, outcome)
                    /\ success' = UpdateReturns(outcome)
                    /\ sent' = sent \o <<Msg("back", winner, Label(winner)),
                                         Msg(IF success' THEN "rolesUpdated"
                                             ELSE "rolesFailed", winner, Label(winner))>>
            ELSE /\ sent' = sent \o <<Msg("back", winner, Label(winner)),
                                      Msg("noRoles", NoOne, NoOne)>>
                 /\ UNCHANGED <<roles, requests, success>>
       ELSE /\ sent' = Append(sent, Msg("back", winner, Label(winner)))
            /\ UNCHANGED <<roles, requests, success>>
    /\ onWheelUsers' = OnWheelFetch(roles')
    /\ heap' = EmptyHeap
    /\ spinMsg' = NoSpinMsg
    /\ pc' = "step2"
    /\ UNCHANGED <<cmd, displayName, roundNum, winnerIndex, winner, argNames,
                   spliced, guildRoles, offWheelUsers, drawn>>
    /\ UNCHANGED animVars
    /\ UNCHANGED <<schedVars, cacheVars, waitVars>>

NextCmd ==
    \/ CmdReject
    \/ CmdAccept
    \/ Step1Draw
    \/ Step1Cancelled
    \/ Step1Commit
    \/ StartTournament
    \/ RoundDraw
    \/ RoundCancelled
    \/ RoundCommit
    \/ LoopExit
    \/ WeekRemoval
    \/ FinalRoles

SpecCmd == InitCmd /\ [][NextCmd]_vars

(* waitForCancelButton on its own: presses, the timeout, suspended handlers *)

Resolve(p, value) == [p EXCEPT !.calls = Append(@, value)]

Settled(p) == p.created /\ p.calls # <<>>

\* the end handler taking its branch whatever the flag says
EndHandlerRunsAlways(flag) == TRUE

\* the end handler's test: if (!resolved)
EndHandlerRuns(flag) == ~flag

\* the outcome of an edit of the message whose error is ignored: the new
\* button row, or the old one when the request failed
EditOutcomes(new) == {new, components}

\* a call waitForCancelButton(spinMessage, initiator, 7000), with or without
\* a spin message
InitWait ==
    /\ TournamentIdle
    /\ heap = EmptyHeap
    /\ winnerIndex = NoIndex
    /\ argNames = <<>>
    /\ AnimIdle
    /\ CmdIdle
    /\ SchedIdle
    /\ CacheIdle
    /\ pc = "waitCall"
    /\ resolved = FALSE
    /\ promise = NoPromise
    /\ collector = "none"
    /\ inFlight = NoInFlight
    /\ presses = <<>>
    /\ components = "none"

WaitFrame ==
    /\ UNCHANGED <<cmd, onWheelUsers, displayName, heap, roundNum, winnerIndex,
                   winner, argNames, sent, spliced>>
    /\ UNCHANGED animVars
    /\ UNCHANGED <<cmdVars, schedVars, cacheVars>>

\* the executor of the promise: without a message resolve(false) at once;
\* otherwise the button is shown and the collector starts its timer
WaitCall ==
    /\ pc = "waitCall"
    /\ \E msg \in {NoSpinMsg, [NoSpinMsg EXCEPT !.sent = TRUE]} :
          /\ spinMsg' = msg
          /\ IF ~msg.sent
             THEN /\ promise' = Resolve([promise EXCEPT !.created = TRUE], FALSE)
                  /\ UNCHANGED <<resolved, collector, components>>
             ELSE /\ promise' = [promise EXCEPT !.created = TRUE]
                  /\ components' \in EditOutcomes("cancel")
                  /\ resolved' = FALSE
                  /\ collector' = "open"
    /\ pc' = "awaiting"
    /\ UNCHANGED <<inFlight, presses>>
    /\ WaitFrame

\* the collect handler setting `resolved` only after interaction.update,
\* next to resolve(true): the flag is still unset while the update is awaited
PressFlagLate ==
    /\ collector = "open"
    /\ Len(presses) < MaxPresses
    /\ \E user \in {"initiator", "other"}, id \in {"spin_cancel", "another"} :
          /\ presses' = Append(presses, [user |-> user, customId |-> id])
          /\ IF id = "spin_cancel" /\ user = "initiator"
             THEN inFlight' = [inFlight EXCEPT !.updates = @ + 1]
             ELSE UNCHANGED inFlight
    /\ UNCHANGED <<pc, spinMsg, resolved, promise, collector, components>>
    /\ WaitFrame

\* the collect handler up to its first await: a button press by the
\* initiator or by someone else while the collector is open
Press ==
    /\ collector = "open"
    /\ Len(presses) < MaxPresses
    /\ \E user \in {"initiator", "other"}, id \in {"spin_cancel", "another"} :
          /\ presses' = Append(presses, [user |-> user, customId |-> id])
          /\ IF id = "spin_cancel" /\ user = "initiator"
             THEN /\ resolved' = TRUE
                  /\ inFlight' = [inFlight EXCEPT !.updates = @ + 1]
             ELSE UNCHANGED <<resolved, inFlight>>
    /\ UNCHANGED <<pc, spinMsg, promise, collector, components>>
    /\ WaitFrame

\* the collect handler after interaction.update: collector.stop, which runs
\* the end handler if the collector is still open, then resolve(true)
CollectResume ==
    /\ inFlight.updates > 0
    /\ components' \in EditOutcomes("cancelledText")
    /\ collector' = "ended"
    /\ inFlight' = [inFlight EXCEPT !.updates = @ - 1,
                                    !.edit = @ \/ (collector = "open" /\ EndHandlerRuns(resolved))]
    /\ promise' = Resolve(promise, TRUE)
    /\ UNCHANGED <<pc, spinMsg, resolved, presses>>
    /\ WaitFrame

\* the collector's timer runs out: the end handler up to its await
Timeout ==
    /\ collector = "open"
    /\ collector' = "ended"
    /\ inFlight' = [inFlight EXCEPT !.edit = EndHandlerRuns(resolved)]
    /\ UNCHANGED <<pc, spinMsg, resolved, promise, presses, components>>
    /\ WaitFrame

\* the end handler after spinMessage.edit: resolve(false)
EndResume ==
    /\ inFlight.edit
    /\ components' \in EditOutcomes("removed")
    /\ inFlight' = [inFlight EXCEPT !.edit = FALSE]
    /\ promise' = Resolve(promise, FALSE)
    /\ UNCHANGED <<pc, spinMsg, resolved, collector, presses>>
    /\ WaitFrame

\* the caller's await continues with the value the promise was settled with
WaitReturn ==
    /\ pc = "awaiting"
    /\ Settled(promise)
    /\ pc' = "waitReturned"
    /\ UNCHANGED <<spinMsg, resolved, promise, collector, inFlight, presses, components>>
    /\ WaitFrame

NextWait ==
    \/ WaitCall
    \/ Press
    \/ CollectResume
    \/ Timeout
    \/ EndResume
    \/ WaitReturn

SpecWait == InitWait /\ [][NextWait]_vars

(* updateUserRoles on its own: any roles held, any two role lists *)

\* the member whose roles the call updates
Member == GuildMembers[1]

InitRoles ==
    /\ TournamentIdle
    /\ winnerIndex = NoIndex
    /\ argNames = <<>>
    /\ AnimIdle
    /\ SchedIdle
    /\ CacheIdle
    /\ WaitIdle
    /\ pc = "rolesCall"
    /\ guildRoles = RoleNames
    /\ \E held \in SUBSET RoleNames : roles = [NoRoles EXCEPT ![Member] = held]
    /\ \E addRoles \in DistinctSeqs(RoleNames, 2), removeRoles \in DistinctSeqs(RoleNames, 2) :
          heap = [EmptyHeap EXCEPT !["rolesToAdd"] = addRoles,
                                   !["rolesToRemove"] = removeRoles]
    /\ offWheelUsers = <<>>
    /\ drawn = <<>>
    /\ requests = <<>>
    /\ success = FALSE

\* a call updateUserRoles(member, addRoles, removeRoles) up to its return
UpdateCall ==
    /\ pc = "rolesCall"
    /\ LET add    == Range(heap["rolesToAdd"])
           remove == Range(heap["rolesToRemove"])
       IN  \E outcome \in UpdateOutcomes(add, remove) :
              /\ roles' = updateUserRoles(roles, Member, add, remove, outcome)
              /\ requests' = requests \o RoleRequests(Member, add, remove, outcome)
              /\ success' = UpdateReturns(outcome)
    /\ pc' = "rolesReturned"
    /\ UNCHANGED <<cmd, onWheelUsers, displayName, heap, roundNum, winnerIndex,
                   winner, argNames, spinMsg, sent, spliced>>
    /\ UNCHANGED animVars
    /\ UNCHANGED <<guildRoles, offWheelUsers, drawn>>
    /\ UNCHANGED <<schedVars, cacheVars, waitVars>>

NextRoles == UpdateCall

SpecRoles == InitRoles /\ [][NextRoles]_vars

(* fetchMembersIfNeeded on its own: one guild, a clock that advances *)

\* the test of fetchMembersIfNeeded with an entry counted as stale at an age
\* of exactly ttl
NeedsFetchAtTtl(entry, t) == ~entry.cached \/ (t - entry.ts) >= ttl

\* !cached || (Date.now() - cached.ts) > ttl
NeedsFetch(entry, t) == ~entry.cached \/ (t - entry.ts) > ttl

\* amounts by which Date.now() advances between two steps
Ticks == {ttl - 1, ttl, ttl + 1}
MaxClock == MaxTicks * (ttl + 1)

InitCache ==
    /\ TournamentIdle
    /\ heap = EmptyHeap
    /\ winnerIndex = NoIndex
    /\ argNames = <<>>
    /\ AnimIdle
    /\ CmdIdle
    /\ SchedIdle
    /\ WaitIdle
    /\ CacheIdle
    /\ pc = "cacheReady"

CacheFrame ==
    /\ UNCHANGED <<cmd, onWheelUsers, displayName, heap, roundNum, winnerIndex,
                   winner, argNames, spinMsg, sent, spliced>>
    /\ UNCHANGED animVars
    /\ UNCHANGED <<cmdVars, schedVars, waitVars>>

\* time passes, between calls or while guild.members.fetch is pending
ClockTick ==
    /\ pc \in {"cacheReady", "cacheThrew", "fetching"}
    /\ \E d \in Ticks :
          /\ now + d <= MaxClock
          /\ now' = now + d
    /\ UNCHANGED <<pc, memberCache, fetches>>
    /\ CacheFrame

\* fetchMembersIfNeeded(guild) up to its await or, without a fetch, its return
CacheCall ==
    /\ pc \in {"cacheReady", "cacheThrew"}
    /\ Len(fetches) < MaxCalls
    /\ IF NeedsFetch(memberCache, now)
       THEN /\ pc' = "fetching"
            /\ UNCHANGED fetches
       ELSE /\ pc' = "cacheReady"
            /\ fetches' = Append(fetches, [at |-> now, result |-> "cached"])
    /\ UNCHANGED <<memberCache, now>>
    /\ CacheFrame

\* guild.members.fetch() completes: memberCache.set(guild.id, { ts: Date.now() })
FetchDone ==
    /\ pc = "fetching"
    /\ memberCache' = [cached |-> TRUE, ts |-> now]
    /\ fetches' = Append(fetches, [at |-> now, result |-> "fetched"])
    /\ pc' = "cacheReady"
    /\ UNCHANGED now
    /\ CacheFrame

\* guild.members.fetch() rejects: the call throws before memberCache.set
FetchThrows ==
    /\ pc = "fetching"
    /\ fetches' = Append(fetches, [at |-> now, result |-> "threw"])
    /\ pc' = "cacheThrew"
    /\ UNCHANGED <<memberCache, now>>
    /\ CacheFrame

NextCache == ClockTick \/ CacheCall \/ FetchDone \/ FetchThrows

SpecCache == InitCache /\ [][NextCache]_vars

Next ==
    \/ StartTournament
    \/ RoundDraw
    \/ RoundCancelled
    \/ RoundCommit
    \/ LoopExit
    \/ WeekRemoval
    \/ FinalRoles

Spec == Init /\ [][Next]_vars

\* every await of the handler resolves: the animation is built and sent, the
\* wait for the Cancel button resolves true or false, every send and every
\* role request settles
Fairness ==
    /\ WF_vars(StartTournament)
    /\ WF_vars(RoundDraw)
    /\ WF_vars(RoundCommit \/ RoundCancelled)
    /\ WF_vars(LoopExit)
    /\ WF_vars(WeekRemoval)
    /\ WF_vars(FinalRoles)

\* the pools of Init, with members that show their own names
InitLive ==
    /\ cmd \in {"spin", "test"}
    /\ pc = "step2"
    /\ IF cmd = "spin"
       THEN \E n \in 0..MaxPool : onWheelUsers = SubSeq(GuildMembers, 1, n)
       ELSE onWheelUsers = testNamesOnWheel
    /\ displayName = [p \in Range(onWheelUsers) |-> p]
    /\ heap = EmptyHeap
    /\ roundNum = 0
    /\ winnerIndex = NoIndex
    /\ winner = NoOne
    /\ argNames = <<>>
    /\ spinMsg = NoSpinMsg
    /\ sent = <<>>
    /\ spliced = <<>>
    /\ AnimIdle
    /\ guildRoles = (IF cmd = "spin" THEN RoleNames ELSE {})
    /\ roles = [m \in Range(GuildMembers) |->
                  IF cmd = "spin" /\ m \in Range(onWheelUsers) THEN {"on"} ELSE {}]
    /\ offWheelUsers = <<>>
    /\ drawn = <<>>
    /\ requests = <<>>
    /\ success = FALSE
    /\ SchedIdle
    /\ CacheIdle
    /\ WaitIdle

SpecLive == InitLive /\ [][Next]_vars /\ Fairness

-----------------------------------------------------------------------------
(* Properties of the tournament *)

PoolSize == Len(onWheelUsers)
Pool == heap["remaining"]

OfType(t) == SelectSeq(sent, LAMBDA m : m.type = t)

\* the participants announced as removed, in order
Announced == [k \in 1..Len(OfType("removed")) |-> OfType("removed")[k].who]

Last(s) == s[Len(s)]

NoDuplicates(s) == Cardinality(Range(s)) = Len(s)

\* s holds exactly the elements of t, each once
SameMembersOnce(s, t) ==
    /\ Len(s) = Len(t)
    /\ Range(s) = Range(t)
    /\ NoDuplicates(s)

Started == pc \notin {"step2"} /\ PoolSize >= 2

\* C1: a tournament on N >= 2 participants that is not cancelled runs exactly
\* N-1 rounds: after r completed rounds the pool holds N-r participants (one
\* fewer per round), a round is only begun on a pool of more than one, and
\* when the handler is done N-1 participants have been announced and removed
\* and exactly one is left.
C1_RoundsAndPoolSize ==
    Started =>
        /\ Len(Pool) = PoolSize - (roundNum - 1)
        /\ Len(Announced) = roundNum - 1
        /\ Len(spliced) = roundNum - 1
        /\ Len(OfType("round")) = (IF pc \in {"wait", "cancelled"} THEN roundNum ELSE roundNum - 1)
        /\ pc \in {"wait", "cancelled"} => Len(Pool) > 1
        /\ pc = "done" =>
              /\ Len(Pool) = 1
              /\ roundNum - 1 = PoolSize - 1
              /\ Len(OfType("round")) = PoolSize - 1
              /\ Len(OfType("final")) = 1

\* C1 witness: a tournament of at least three participants ran to its end
C1_Witness ==
    /\ pc = "done"
    /\ PoolSize >= 3
    /\ Len(Announced) = PoolSize - 1
    /\ Len(Pool) = 1

\* C2: at every point of a tournament the participants announced as removed
\* followed by those still in the pool are the original pool, each original
\* participant exactly once; at the end the N-1 round winners and the final
\* survivor are the original pool.
C2_Partition ==
    Started =>
        /\ SameMembersOnce(Announced \o Pool, onWheelUsers)
        /\ pc = "done" =>
              /\ Len(Announced) = PoolSize - 1
              /\ SameMembersOnce(Append(Announced, Last(OfType("final")).who), onWheelUsers)

\* C2 witness: the end of a tournament of three or more, the survivor being
\* neither the first nor the last of the original pool
C2_Witness ==
    /\ pc = "done"
    /\ PoolSize >= 3
    /\ Len(Announced) = PoolSize - 1
    /\ Pool = <<onWheelUsers[2]>>

\* the label on the segment under the pointer at the last frame of the
\* round's animation
LandedLabel ==
    spinMsg.names[SegmentUnderPointer(Len(spinMsg.names), spinMsg.lastAngle) + 1]

\* C3: in every round the drawn participant pool[winnerIndex] is the one whose
\* label is in slot 0 of the presentation order given to the animation, the
\* one announced as removed and the one spliced out of the pool; the
\* animation is asked to land on slot 0, and the segment under the pointer at
\* the last frame carries that participant's label.
C3_SameParticipant ==
    /\ pc \in {"wait", "cancelled"} =>
          /\ spinMsg.sent
          /\ spinMsg.names = heap["ordered"]
          /\ spinMsg.winnerIndex = 0
          /\ winner = Pool[winnerIndex + 1]
          /\ spinMsg.names[1] = Label(winner)
          /\ LandedLabel = Label(winner)
    /\ Announced = spliced
    /\ (pc \in {"loop", "done"} /\ Len(spliced) > 0) =>
          /\ Last(spliced) = winner
          /\ Last(OfType("removed")).label = Label(winner)
          /\ spinMsg.winnerIndex = 0
          /\ spinMsg.names[1] = Label(winner)
          /\ LandedLabel = Label(winner)

\* C3 witness: a round that drew the last of three or more participants with
\* distinct labels has just removed it
C3_Witness ==
    /\ pc = "loop"
    /\ Len(spliced) = 1
    /\ PoolSize >= 3
    /\ winnerIndex = PoolSize - 1
    /\ Len(spinMsg.names) = PoolSize
    /\ spinMsg.names[1] \notin {spinMsg.names[k] : k \in 2..Len(spinMsg.names)}
    /\ LandedLabel = Label(Last(spliced))

-----------------------------------------------------------------------------
(* Properties of the rotation angle and of the presentation order *)

\* C4: for every segment count S >= 1 and slot in [0, S), with pointer angle
\* 0 and 4 whole rotations, the final rotation puts the middle of segment
\* `slot` (as createWheelImage lays it out) at the pointer angle modulo a
\* whole turn; the last frame is drawn at that rotation, with segment `slot`
\* under the pointer.
C4_MidpointAtPointer ==
    (pc \in {"animLoop", "animSent"} /\ numSegments >= 1 /\ slot \in 0..(numSegments - 1)) =>
        /\ (SegmentMidAngle(numSegments, slot) + finalRotation) % (4 * numSegments)
              = POINTER_ANGLE % (4 * numSegments)
        /\ pc = "animSent" =>
              /\ Last(frames).angleNum = finalRotation * Last(frames).angleDen
              /\ SegmentUnderPointer(numSegments, finalRotation) = slot

\* C4 witness: a finished spin of an odd wheel landing on its last segment
C4_Witness ==
    /\ pc = "animSent"
    /\ numSegments = 3
    /\ slot = 2
    /\ Len(frames) = totalFrames

\* number of occurrences of x in s
Count(s, x) == Cardinality({k \in 1..Len(s) : s[k] = x})

Ordered == heap["ordered"]

\* C5: for a non-empty array of labels and a valid winnerIndex,
\* orderedForWinner returns as many labels as it was given, the first being
\* names[winnerIndex] and the others being, as a multiset, the input with
\* one occurrence of the winner taken out (so the output and the input are
\* the same multiset), whatever the shuffle drew.
C5_OrderedForWinner ==
    (pc = "orderReturned" /\ Len(argNames) >= 1) =>
        /\ Len(Ordered) = Len(argNames)
        /\ Ordered[1] = argNames[winnerIndex + 1]
        /\ \A x \in Labels :
              /\ Count(Tail(Ordered), x)
                    = Count(argNames, x) - (IF x = argNames[winnerIndex + 1] THEN 1 ELSE 0)
              /\ Count(Ordered, x) = Count(argNames, x)

\* C5 witness: a three-label array with a repeated label, the winner being
\* one of the repeated ones, and a shuffle that exchanged the other two
C5_Witness ==
    /\ pc = "orderReturned"
    /\ argNames = <<"Ann", "Bo", "Ann">>
    /\ winnerIndex = 0
    /\ Ordered = <<"Ann", "Ann", "Bo">>

\* position of x in s
Pos(s, x) == CHOOSE k \in 1..Len(s) : s[k] = x

\* C6: the step that removes a round's participant keeps every other
\* participant in the pool, in the same relative order, and no other step
\* of the tournament changes the pool.
C6_OrderPreserved ==
    [][Started =>
          IF pc = "wait" /\ pc' = "loop"
          THEN LET old == heap["remaining"]
                   new == heap'["remaining"]
               IN  /\ Len(new) = Len(old) - 1
                   /\ winner \notin Range(new)
                   /\ \A x \in Range(old) \ {winner} : x \in Range(new)
                   /\ \A i, j \in 1..Len(new) :
                         i < j => Pos(old, new[i]) < Pos(old, new[j])
          ELSE heap'["remaining"] = heap["remaining"]]_vars

\* C6 witness: the first of three or more participants was removed and the
\* others are left as they stood
C6_Witness ==
    /\ pc = "loop"
    /\ PoolSize >= 3
    /\ spliced = <<onWheelUsers[1]>>
    /\ Pool = Tail(onWheelUsers)

\* the labels of the pool, as !spin maps them
PoolLabels(pool) == [k \in 1..Len(pool) |-> Label(pool[k])]

\* s without its element at 0-based index i
Without(s, i) == [k \in 1..(Len(s) - 1) |-> IF k <= i THEN s[k] ELSE s[k + 1]]

\* C7: computing the presentation order leaves the pool and the names array
\* as they were before the call (and shuffleArray leaves its own argument,
\* the names without the winner, in order), so that the element at
\* winnerIndex is still the drawn participant and the later splice removes
\* it.
C7_InputsNotMutated ==
    [][/\ (pc = "loop" /\ pc' = "wait") =>
            /\ heap'["remaining"] = heap["remaining"]
            /\ argNames' = PoolLabels(heap["remaining"])
            /\ heap'[NamesRef] = argNames'
            /\ heap'["others"] = Without(argNames', winnerIndex')
            /\ heap'["remaining"][winnerIndex' + 1] = winner'
       /\ (pc = "wait" /\ pc' = "loop") =>
            /\ Len(spliced') = Len(spliced) + 1
            /\ Last(spliced') = winner]_vars

\* C7 witness: !test drew the first of three or more names and the shuffle
\* changed the order of the others
C7_Witness ==
    /\ pc = "wait"
    /\ cmd = "test"
    /\ Len(Pool) >= 3
    /\ winnerIndex = 0
    /\ heap["a"] # heap["others"]
    /\ Pool = onWheelUsers

\* C8: once the initiator has cancelled, in round k, the pool is the original
\* pool without the k-1 participants removed before, the participant drawn
\* in round k is still in the pool and was not announced as removed, the
\* cancellation notice is the last message, and the handler takes no further
\* step (no draw, no removal, no final winner).
C8_CancelStops ==
    Len(OfType("cancelled")) > 0 =>
        /\ pc = "cancelled"
        /\ Len(Pool) = PoolSize - (roundNum - 1)
        /\ Len(Announced) = roundNum - 1
        /\ spliced = Announced
        /\ SameMembersOnce(Announced \o Pool, onWheelUsers)
        /\ winner \in Range(Pool)
        /\ winner \notin Range(Announced)
        /\ Last(sent).type = "cancelled"
        /\ Len(OfType("cancelled")) = 1
        /\ Len(OfType("final")) = 0
        /\ ~ENABLED Next

\* C8 witness: a cancel in the second round of a tournament of three or more
C8_Witness ==
    /\ pc = "cancelled"
    /\ roundNum = 2
    /\ PoolSize >= 3
    /\ Len(Announced) = 1

-----------------------------------------------------------------------------
(* Properties of the frame schedule *)

\* C9: for every frame count F >= 2 and final rotation >= 0, progress is
\* frame/(F-1), 0 at frame 0, strictly increasing, 1 at frame F-1; the angle
\* is ((F-1)^3 - (F-1-frame)^3) * finalRotation / (F-1)^3, which is 0 at
\* frame 0, finalRotation at frame F-1 and never decreases from one frame to
\* the next.
C9_TimingCurve ==
    /\ Len(frames) <= totalF
    /\ \A k \in 1..Len(frames) :
          LET e == frames[k]
              f == k - 1
          IN  /\ e.frame = f
              /\ e.progressNum * (totalF - 1) = f * e.progressDen
              /\ e.progressDen > 0
              /\ e.angleDen = Cube(totalF - 1)
              /\ e.angleNum = (Cube(totalF - 1) - Cube(totalF - 1 - f)) * finalRotation
              /\ k = 1 => (e.progressNum = 0 /\ e.angleNum = 0)
              /\ k = totalF =>
                    /\ e.progressNum = e.progressDen
                    /\ e.angleNum = finalRotation * e.angleDen
              /\ k < Len(frames) =>
                    /\ e.progressNum * frames[k + 1].progressDen
                          < frames[k + 1].progressNum * e.progressDen
                    /\ e.angleDen = frames[k + 1].angleDen
                    /\ e.angleNum <= frames[k + 1].angleNum
    /\ pc = "animSent" => Len(frames) = totalF

\* C9 witness: a finished schedule of the program's 60 frames with a
\* positive final rotation
C9_Witness ==
    /\ pc = "animSent"
    /\ totalF = totalFrames
    /\ finalRotation > 0
    /\ Len(frames) = totalF
    /\ Last(frames).angleNum = finalRotation * Last(frames).angleDen

\* C10: one spin hands the encoder exactly 60 frames, in increasing frame
\* order; the delay is 30 ms for frames 0..39 and 50 + 15*(frame - 40) ms
\* for frames 40..59, highlighted or not: constant before the tail, growing
\* by 15 ms per frame inside it, never decreasing.
C10_FrameDelays ==
    /\ Len(frames) <= 60
    /\ pc = "animSent" => Len(frames) = 60
    /\ \A k \in 1..Len(frames) :
          LET e == frames[k]
              f == k - 1
          IN  /\ e.frame = f
              /\ f < 40 => e.delay = 30
              /\ f >= 40 => e.delay = 50 + 15 * (f - 40)
              /\ k < Len(frames) =>
                    /\ e.delay <= frames[k + 1].delay
                    /\ f >= 40 => frames[k + 1].delay = e.delay + 15

\* C10 witness: a finished spin whose last frame is highlighted and carries
\* the longest delay
C10_Witness ==
    /\ pc = "animSent"
    /\ Len(frames) = 60
    /\ frames[40].delay = 30
    /\ frames[41].delay = 50
    /\ frames[60].delay = 335
    /\ frames[60].highlight # NoIndex
    /\ frames[41].highlight = NoIndex

\* C11: in a spin of 60 frames landing on a valid slot, the frames 55..59
\* (the last 5) are drawn with exactly the landing slot highlighted, that
\* slot being the segment under the pointer at the end, and the frames 0..54
\* are drawn with no segment highlighted.
C11_HighlightSuffix ==
    (numSegments >= 1 /\ slot \in 0..(numSegments - 1)) =>
        /\ \A k \in 1..Len(frames) :
              IF k - 1 >= 60 - 5
              THEN /\ HighlightedSegments(numSegments, frames[k].highlight) = {slot}
                   /\ SegmentUnderPointer(numSegments, finalRotation) = slot
              ELSE HighlightedSegments(numSegments, frames[k].highlight) = {}
        /\ pc = "animSent" =>
              Cardinality({k \in 1..Len(frames) :
                              HighlightedSegments(numSegments, frames[k].highlight) # {}}) = 5

\* C11 witness: a finished spin of a wheel of three landing on slot 1
C11_Witness ==
    /\ pc = "animSent"
    /\ numSegments = 3
    /\ slot = 1
    /\ Len(frames) = 60
    /\ frames[55].highlight = NoIndex
    /\ frames[56].highlight = 1

\* pi/8 in the units of a wheel of S segments (S a multiple of 4)
EighthPi(S) == (4 * S) \div 16

\* C16: for 8 segments, slot 0, 4 whole rotations and pointer angle 0 the
\* final rotation is 8*pi + pi/2 - pi/8, that is 67 times pi/8.
C16_EightSegments ==
    (pc \in {"animLoop", "animSent"} /\ numSegments = 8 /\ slot = 0) =>
        /\ FIXED_ROTATIONS = 4
        /\ POINTER_ANGLE = 0
        /\ finalRotation = 67 * EighthPi(numSegments)
        /\ finalRotation = 8 * (8 * EighthPi(numSegments)) + 4 * EighthPi(numSegments)
                              - EighthPi(numSegments)

\* C16 witness: the spin of 8 segments on slot 0 has computed its rotation
C16_Witness ==
    /\ pc = "animSent"
    /\ numSegments = 8
    /\ slot = 0
    /\ finalRotation = 134

\* C15: the rotation angle is computed only for valid inputs: for a segment
\* count below 1 or a slot outside 0..S-1 the call is rejected, so no
\* rotation is computed and no frame is emitted.
C15_RejectsInvalidInput ==
    (numSegments < 1 \/ slot \notin 0..(numSegments - 1)) =>
        /\ pc \in {"animCall", "animNull"}
        /\ frames = <<>>

\* C12: on an array of N >= 1 elements spinWheel returns an index i with
\* 0 <= i < N, which designates an element of the array, and before the call
\* every index of 0..N-1 is a possible result.
C12_IndexInRange ==
    LET N == Len(heap["names"])
    IN  N >= 1 =>
          /\ pc = "drawReturned" =>
                /\ winnerIndex \in 0..(N - 1)
                /\ winnerIndex + 1 \in DOMAIN heap["names"]
          /\ pc = "drawCall" =>
                \A i \in 0..(N - 1) : ENABLED (SpinCall /\ winnerIndex' = i)

\* C12 witness: the last index of the longest array has been drawn
C12_Witness ==
    /\ pc = "drawReturned"
    /\ Len(heap["names"]) = MaxLen
    /\ winnerIndex = MaxLen - 1

RECURSIVE Factorial(_)
Factorial(n) == IF n <= 1 THEN 1 ELSE n * Factorial(n - 1)

\* the rearrangements of a sequence of distinct elements
Rearrangements(q) ==
    {p \in [1..Len(q) -> Range(q)] : \A i, j \in 1..Len(q) : p[i] = p[j] => i = j}

\* C19: for an input of n distinct elements the sequences of random choices
\* of shuffleArray (j in 0..i for i = n-1 down to 1) are n! in number, no two
\* of them give the same result, and the results are exactly the n!
\* permutations of the input; the array returned is one of them and the
\* input is left as it was.
C19_ShuffleBijection ==
    LET arr     == heap["names"]
        n       == Len(arr)
        draws   == ShuffleDraws(n)
        results == {shuffleArray(heap, "names", js)["a"] : js \in draws}
    IN  /\ pc = "shuffleCall" =>
              /\ Cardinality(draws) = Factorial(n)
              /\ Cardinality(results) = Cardinality(draws)
              /\ results = Rearrangements(arr)
        /\ pc = "shuffleReturned" =>
              /\ heap["a"] \in Rearrangements(arr)
              /\ arr = argNames

\* C19 witness: an array of MaxLen distinct elements has come back reversed
C19_Witness ==
    /\ pc = "shuffleReturned"
    /\ Len(heap["names"]) = MaxLen
    /\ \A i \in 1..MaxLen : heap["a"][i] = heap["names"][MaxLen + 1 - i]

\* the schedule of an animation: per frame the rotation angle, the delay
\* and the highlighted slot
ScheduleOf(fs) ==
    [k \in 1..Len(fs) |-> [angleNum |-> fs[k].angleNum, angleDen |-> fs[k].angleDen,
                           delay |-> fs[k].delay, highlight |-> fs[k].highlight]]

DrawsFrom(log, pool) == SelectSeq(log, LAMBDA d : d.pool = pool)

\* C14: the tournament step entered with fewer than 2 participants is
\* rejected: its only effect is the rejection message, after which the
\* handler has returned; no draw is made, no participant is removed or
\* announced, no final winner is announced and no role is changed.
C14_TooFewRejected ==
    [][ (Len(onWheelUsers) < 2) =>
          /\ pc = "step2" =>
                /\ pc' = "done"
                /\ sent' = Append(sent, Msg("tooFew", NoOne, NoOne))
                /\ drawn' = drawn
                /\ roles' = roles
                /\ UNCHANGED <<heap, spliced, roundNum, winner, winnerIndex, spinMsg>>
          /\ pc \notin {"done", "loop", "wait", "exit"} ]_vars

\* C14 witness: !spin has reinstated the only participant and Step 2 has
\* rejected the pool of one
C14_Witness ==
    /\ cmd = "spin"
    /\ pc = "done"
    /\ Len(offWheelUsers) >= 6
    /\ onWheelUsers = <<winner>>
    /\ Last(sent).type = "tooFew"
    /\ DrawsFrom(drawn, "on") = <<>>
    /\ OfType("removed") = <<>>
    /\ OfType("final") = <<>>

\* C17: Step 1 makes exactly one draw, over the off-wheel list, and shows
\* its animation when the list has 6 or more members; with fewer than 6 it
\* makes no draw, shows no animation and changes no role. After the step the
\* handler is at the tournament step, except that a cancelled reinstatement
\* spin ends the command.
C17_Reinstatement ==
    [][ /\ pc = "step1" =>
              LET n == Len(offWheelUsers')
              IN  /\ cmd = "spin" =>
                        Range(offWheelUsers') = {m \in Range(GuildMembers) : "off" \in roles[m]}
                  /\ roles' = roles
                  /\ IF n >= 6
                     THEN /\ Len(drawn') = Len(drawn) + 1
                          /\ Last(drawn').pool = "off"
                          /\ Last(drawn').size = n
                          /\ Last(drawn').index \in 0..(n - 1)
                          /\ winner' = offWheelUsers'[Last(drawn').index + 1]
                          /\ spinMsg'.sent
                          /\ pc' = "wait1"
                     ELSE /\ drawn' = drawn
                          /\ spinMsg' = NoSpinMsg
                          /\ pc' = "step2"
        /\ pc = "wait1" =>
              /\ drawn' = drawn
              /\ pc' \in {"step2", "cancelled"}
              /\ (pc' = "cancelled") <=> (Last(sent').type = "cancelled")
        /\ pc' \in {"wait1", "step2", "loop", "wait", "exit", "done", "cancelled"} =>
              \/ Last(sent').type \in {"noGuild", "noPermission"}
              \/ Len(DrawsFrom(drawn', "off")) = (IF Len(offWheelUsers') >= 6 THEN 1 ELSE 0) ]_vars

\* C17 witness: !spin with 6 members off the wheel has drawn one of them,
\* given the role back and reached the tournament step
C17_Witness ==
    /\ cmd = "spin"
    /\ pc = "step2"
    /\ Len(offWheelUsers) = 6
    /\ Len(drawn) = 1
    /\ drawn[1].pool = "off"
    /\ roles[winner] = {"on"}
    /\ winner \in Range(onWheelUsers)

\* the initiator's presses of the Cancel button that the collector has
\* received
InitiatorCancels ==
    {k \in 1..Len(presses) :
        presses[k].user = "initiator" /\ presses[k].customId = "spin_cancel"}

\* the promise is settled with `value`, and every call of resolve passed it
SettledWith(value) ==
    /\ Settled(promise)
    /\ \A k \in 1..Len(promise.calls) : promise.calls[k] = value

WaitOutcome ==
    /\ Settled(promise) =>
          IF InitiatorCancels # {} THEN SettledWith(TRUE) ELSE SettledWith(FALSE)
    /\ (Settled(promise) /\ ~spinMsg.sent) => SettledWith(FALSE)
    /\ pc = "waitReturned" => Settled(promise)
    /\ (pc # "waitCall" /\ ~ENABLED NextWait) => pc = "waitReturned"

\* C18: the promise of waitForCancelButton is settled once, with true if the
\* initiator pressed Cancel while the collector was open and with false
\* otherwise (the timeout, or no spin message); its value never changes
\* afterwards, every wait ends with the promise settled, and a press by
\* another user changes neither the promise, nor the flag, nor the
\* collector, which stays open.
C18_CancelWait ==
    [][ /\ WaitOutcome
        /\ WaitOutcome'
        /\ Settled(promise) => (Settled(promise') /\ Head(promise'.calls) = Head(promise.calls))
        /\ (Len(presses') > Len(presses) /\ Last(presses').user = "other") =>
              /\ promise' = promise
              /\ resolved' = resolved
              /\ inFlight' = inFlight
              /\ collector' = "open"
              /\ collector = "open" ]_vars

\* C18 witness: another user pressed Cancel, then the initiator pressed it,
\* the timeout ended the collector while the handler was suspended, and the
\* wait returned true
C18_Witness ==
    /\ pc = "waitReturned"
    /\ Len(presses) >= 2
    /\ presses[1] = [user |-> "other", customId |-> "spin_cancel"]
    /\ presses[2] = [user |-> "initiator", customId |-> "spin_cancel"]
    /\ promise.calls = <<TRUE>>
    /\ components = "cancelledText"

\* C27: once the collector has received the initiator's Cancel press, the
\* end handler neither resolves the wait to false nor edits the message: if
\* the timeout ends the collector while the press is still being processed
\* (the handler is suspended before collector.stop), that step changes
\* neither the promise nor the button row, no resolve(false) is ever called,
\* and the wait returns true.
C27_TimeoutDuringCancel ==
    [][ /\ (InitiatorCancels # {})' =>
              /\ ~inFlight'.edit
              /\ \A k \in 1..Len(promise'.calls) : promise'.calls[k] = TRUE
              /\ components' # "removed"
        /\ (/\ inFlight.updates > 0
            /\ inFlight'.updates = inFlight.updates
            /\ collector = "open"
            /\ collector' = "ended") =>
              /\ promise' = promise
              /\ components' = components
              /\ inFlight' = inFlight
        /\ (pc' = "waitReturned" /\ (InitiatorCancels # {})') =>
              Head(promise'.calls) = TRUE ]_vars

\* C27 witness: the timeout has ended the collector while the initiator's
\* press is suspended at interaction.update, and nothing is resolved yet
C27_Witness ==
    /\ collector = "ended"
    /\ inFlight = [updates |-> 1, edit |-> FALSE]
    /\ InitiatorCancels # {}
    /\ resolved
    /\ promise.calls = <<>>
    /\ components = "cancel"

\* the requests of one kind in a log of role requests
RequestsOf(log, op) == SelectSeq(log, LAMBDA q : q.op = op)

\* C29: a call of updateUserRoles always returns (it does not throw); it
\* returns true only if an addition was sent and succeeded for a non-empty
\* addRoles and a removal was sent and succeeded for a non-empty
\* removeRoles, and then the member holds the old roles plus addRoles minus
\* removeRoles; an addition is sent before a removal; when the addition
\* fails no removal is sent, the roles are unchanged and the result is false.
C29_UpdateUserRoles ==
    [][ pc = "rolesCall" =>
          LET add     == Range(heap["rolesToAdd"])
              remove  == Range(heap["rolesToRemove"])
              adds    == RequestsOf(requests', "add")
              removes == RequestsOf(requests', "remove")
          IN  /\ pc' = "rolesReturned"
              /\ success' \in BOOLEAN
              /\ Len(adds) <= 1 /\ Len(removes) <= 1
              /\ requests' = adds \o removes
              /\ \A k \in 1..Len(requests') : requests'[k].member = Member
              /\ success' =>
                    /\ \A k \in 1..Len(requests') : requests'[k].ok
                    /\ add # {} => (Len(adds) = 1 /\ adds[1].roles = add)
                    /\ remove # {} => (Len(removes) = 1 /\ removes[1].roles = remove)
                    /\ roles'[Member] = (roles[Member] \cup add) \ remove
              /\ (\E k \in 1..Len(requests') : ~requests'[k].ok) => ~success'
              /\ (Len(adds) = 1 /\ ~adds[1].ok) =>
                    /\ removes = <<>>
                    /\ roles' = roles
                    /\ ~success' ]_vars

\* C29 witness: adding two roles failed, the removal asked for was not sent
\* and the call returned false
C29_Witness ==
    /\ pc = "rolesReturned"
    /\ Len(heap["rolesToAdd"]) = 2
    /\ Len(heap["rolesToRemove"]) = 1
    /\ Len(requests) = 1
    /\ requests[1].op = "add"
    /\ ~requests[1].ok
    /\ ~success

\* C24: a call of fetchMembersIfNeeded with the default ttl calls
\* guild.members.fetch exactly when the guild has no cache entry or its entry
\* is more than 60 000 ms old (an entry exactly 60 000 ms old is still
\* fresh); the entry changes only when a fetch completes, and then records
\* the time of completion; a fetch that throws leaves the entry as it was
\* and the call after it fetches again.
C24_FetchWhenStale ==
    [][ /\ (pc \in {"cacheReady", "cacheThrew"} /\ now' = now) =>
             /\ (pc' = "fetching") <=>
                    (~memberCache.cached \/ now - memberCache.ts > 60000)
             /\ (pc' # "fetching") =>
                    /\ pc' = "cacheReady"
                    /\ fetches'[Len(fetches')].result = "cached"
        /\ memberCache' # memberCache =>
             /\ pc = "fetching"
             /\ fetches' = Append(fetches, [at |-> now, result |-> "fetched"])
             /\ memberCache' = [cached |-> TRUE, ts |-> now]
        /\ (Len(fetches') > Len(fetches) /\ fetches'[Len(fetches')].result = "threw") =>
             /\ memberCache' = memberCache
             /\ pc' = "cacheThrew"
        /\ (pc = "cacheThrew" /\ now' = now) => pc' = "fetching" ]_vars

\* C24 witness: a first fetch threw, the call after it fetched, and a call
\* made when the entry was exactly ttl old returned without a fetch
C24_Witness ==
    /\ pc = "cacheReady"
    /\ Len(fetches) = 3
    /\ fetches[1].result = "threw"
    /\ fetches[2].result = "fetched"
    /\ fetches[3].result = "cached"
    /\ fetches[3].at - memberCache.ts = ttl

\* the final winner of the tournament: the one participant left in the pool
FinalWinner == heap["remaining"][1]

\* C22: when !spin ends with one survivor and the final role update
\* succeeds (the phrase of the week is posted), the survivor holds 'Pig of
\* the week' and 'Off the wheel' in addition to the roles held before, each
\* only if the guild has that role, and no longer holds 'On the wheel'; no
\* other member's roles change in that update; the survivor is the one
\* participant of the tournament that no round drew and removed.
C22_SurvivorRoles ==
    [][ (pc = "grant" /\ pc' = "done" /\ success') =>
          /\ Last(sent').type = "phrase"
          /\ Last(sent').who = FinalWinner
          /\ \A r \in {"week", "off"} :
                r \in roles'[FinalWinner] <=> (r \in guildRoles \/ r \in roles[FinalWinner])
          /\ "on" \notin roles'[FinalWinner]
          /\ "on" \in guildRoles
          /\ \A p \in Range(GuildMembers) \ {FinalWinner} : roles'[p] = roles[p]
          /\ Range(onWheelUsers) \ Range(spliced) = {FinalWinner}
          /\ FinalWinner \notin Range(Announced)
          /\ Len(spliced) = Len(onWheelUsers) - 1 ]_vars

\* C22 witness: a member brought back by Step 1 survived a tournament of
\* three in a guild with all three roles and now holds 'Pig of the week' and
\* 'Off the wheel' only
C22_Witness ==
    /\ cmd = "spin"
    /\ pc = "done"
    /\ success
    /\ Last(sent).type = "phrase"
    /\ guildRoles = RoleNames
    /\ Len(onWheelUsers) = 3
    /\ Len(offWheelUsers) = ReinstateThreshold
    /\ FinalWinner \in Range(offWheelUsers)
    /\ roles[FinalWinner] = {"week", "off"}

\* the members holding 'Pig of the week'
WeekHolders == {p \in Range(GuildMembers) : "week" \in roles[p]}

\* C21: after !spin has completed with a final winner in a guild that has
\* the 'Pig of the week' role, no member other than the final winner holds
\* that role, so at most one member holds it.
C21_SingleWeekHolder ==
    (cmd = "spin" /\ pc = "done" /\ OfType("final") # <<>> /\ "week" \in guildRoles) =>
        /\ WeekHolders \subseteq {FinalWinner}
        /\ Cardinality(WeekHolders) <= 1

\* the handler is in the reinstatement step of !spin
InStep1 == cmd = "spin" /\ pc \in {"step1", "wait1"}

\* C23: in the reinstatement step of !spin a member's roles change only in
\* the step that follows a spin that was not cancelled, only in a guild
\* that has both 'On the wheel' and 'Off the wheel', and only for the drawn
\* member, who gets 'On the wheel' added (unless that request fails) and
\* then 'Off the wheel' removed (unless either request fails); when the spin is cancelled the handler posts the
\* cancellation and has returned: no role has changed, no role request was
\* sent, the tournament step has not started and no further step follows.
C23_ReinstatementRoles ==
    [][ InStep1 =>
          /\ (roles' # roles \/ requests' # requests) =>
                /\ pc = "wait1" /\ pc' = "step2"
                /\ Last(sent').type \in {"rolesUpdated", "rolesFailed"}
                /\ {"on", "off"} \subseteq guildRoles
                /\ winner \in Range(offWheelUsers)
                /\ \A p \in Range(GuildMembers) \ {winner} : roles'[p] = roles[p]
                /\ roles'[winner] \in {roles[winner],
                                       roles[winner] \cup {"on"},
                                       (roles[winner] \cup {"on"}) \ {"off"}}
                /\ requests'[1] = RoleRequest(winner, "add", {"on"}, requests'[1].ok)
                /\ Len(requests') = 2 =>
                      requests'[2] = RoleRequest(winner, "remove", {"off"}, requests'[2].ok)
                /\ Len(requests') \in 1..2
          /\ (pc' = "step2" /\ success') =>
                roles'[winner] = (roles[winner] \cup {"on"}) \ {"off"}
          /\ Last(sent').type = "cancelled" =>
                /\ pc' = "cancelled"
                /\ roles' = roles
                /\ requests' = <<>>
                /\ roundNum' = 0
                /\ OfType("start")' = <<>>
                /\ heap'["remaining"] = <<>>
                /\ (~ENABLED NextCmd)' ]_vars

\* C23 witness: the reinstatement spin of a !spin in a guild with both roles
\* was cancelled; the drawn member is still 'Off the wheel'
C23_Witness ==
    /\ cmd = "spin"
    /\ pc = "cancelled"
    /\ roundNum = 0
    /\ {"on", "off"} \subseteq guildRoles
    /\ Len(offWheelUsers) = ReinstateThreshold
    /\ roles[winner] = {"off"}
    /\ requests = <<>>

\* C26: no step of the !test command changes a role of any member or sends
\* a role request, whatever is drawn and whether or not a spin is
\* cancelled; every step of it posts at least one message.
C26_TestChangesNoRole ==
    [][ cmd = "test" =>
          /\ roles' = roles
          /\ requests' = <<>>
          /\ guildRoles' = guildRoles
          /\ Len(sent') > Len(sent) ]_vars

\* C26 witness: a !test in a guild whose members hold roles ran the
\* reinstatement draw and the whole tournament, and the roles are as before
C26_Witness ==
    /\ cmd = "test"
    /\ pc = "done"
    /\ OfType("back") # <<>>
    /\ OfType("final") # <<>>
    /\ Len(spliced) = Len(testNamesOnWheel) - 1
    /\ roles = GuildOf(1, 1, {Bystander})
    /\ WeekHolders = {Bystander}

\* the steps of the tournament loop
InRounds == pc \in {"loop", "wait", "exit"}

\* C28: in a !spin tournament no step of the loop changes a role or sends a
\* role request, so a participant removed in a round still holds 'On the
\* wheel' and has gained no role; after the loop a member's roles change
\* only if the member is the final survivor or held 'Pig of the week', and
\* the role requests sent are the removals of 'Pig of the week' from its
\* holders followed by the update of the final survivor.
C28_RoundsChangeNoRole ==
    [][ cmd = "spin" =>
          /\ (InRounds \/ pc = "step2") =>
                /\ roles' = roles
                /\ requests' = requests
          /\ (pc = "wait" /\ pc' = "loop") =>
                /\ Last(spliced') = winner
                /\ "on" \in roles'[winner]
          /\ pc \in {"final", "grant"} =>
                /\ \A p \in Range(GuildMembers) :
                      roles'[p] # roles[p] => (p = FinalWinner \/ "week" \in roles[p])
                /\ \A p \in Range(spliced) :
                      /\ "on" \in roles'[p]
                      /\ roles'[p] \subseteq roles[p]
                      /\ roles[p] \ roles'[p] \subseteq {"week"}
                /\ \A k \in (Len(requests) + 1)..Len(requests') :
                      \/ requests'[k].member = FinalWinner /\ pc = "grant"
                      \/ /\ pc = "final"
                         /\ "week" \in roles[requests'[k].member]
                         /\ requests'[k].op = "remove"
                         /\ requests'[k].roles = {"week"} ]_vars

\* C28 witness: a !spin tournament of three is over; the two participants
\* removed in its rounds hold 'On the wheel' and nothing else, the survivor
\* has been updated
C28_Witness ==
    /\ cmd = "spin"
    /\ pc = "done"
    /\ Len(spliced) = 2
    /\ \A p \in Range(spliced) : roles[p] = {"on"}
    /\ success
    /\ "on" \notin roles[FinalWinner]
    /\ \E k \in 1..Len(requests) : requests[k].member = FinalWinner /\ requests[k].op = "remove"

\* the handler has returned after the final-winner announcement or after a
\* cancellation
Ended ==
    \/ pc = "done" /\ OfType("final") # <<>>
    \/ pc = "cancelled" /\ Last(sent).type = "cancelled"

\* C25: when every await of the handler resolves, a tournament started on a
\* pool of N >= 2 eventually ends with the final-winner announcement or with
\* a cancellation; it never begins more than N-1 rounds, and every draw of
\* the loop is from a pool of at least 2.
C25_TournamentEnds ==
    /\ [](Started => /\ roundNum <= PoolSize
                     /\ Len(drawn) <= PoolSize - 1
                     /\ \A k \in 1..Len(drawn) : drawn[k].size >= 2)
    /\ (pc = "loop" /\ PoolSize >= 2 /\ roundNum = 1) ~> Ended

\* C25 witness: a tournament on a pool of MaxPool has ended after MaxPool - 1
\* rounds with its final-winner announcement
C25_Witness ==
    /\ PoolSize = MaxPool
    /\ Ended
    /\ pc = "done"
    /\ Len(drawn) = MaxPool - 1
    /\ Len(Pool) = 1

====
